---- MODULE Spec2Model ----
(***************************************************************************)
(* Issue-to-solution mapping and campaign aggregation of the Azion         *)
(* PageSpeed analyzer.  Two shipped implementations are modelled side by   *)
(* side: the TypeScript service (src/src/services/azion-solutions.ts) and  *)
(* the JavaScript module (src/azion_solutions.js).  The variable impl      *)
(* says which of the two a behaviour runs.  Field names follow the         *)
(* TypeScript service (snake_case); the JavaScript module uses the same    *)
(* fields in camelCase.                                                    *)
(***************************************************************************)
EXTENDS Integers, Sequences, FiniteSets, TLC

VARIABLES
    impl,            \* "ts" or "js": the implementation that is called
    analysis,        \* the argument of the aggregation entry point
    auditId,         \* the argument of the resolver
    pc,              \* "start" before the call, "done" after it
    outcome,         \* "none", "returned" or "threw"
    recommendation,  \* what getAzionSolutionsForAudit returned
    campaignData,    \* the campaign data the aggregation returned
    recommendations, \* generateAzionRecommendations: its recommendations list
    solution_count,  \* generateAzionRecommendations: its solution_count
    pitch,           \* what formatMarketingPitch returned
    processedData,   \* the argument of assessCrUXPerformance
    assessment,      \* what assessCrUXPerformance returned
    pagespeedData,   \* the argument of analyzePageSpeedData
    request,         \* the HTTP request: method, path and body
    validation,      \* what validateAnalysisRequest returned or threw
    logs,            \* the lines written to the console, oldest first
    response         \* the HTTP response sent

\* The variables the resolver and the aggregation entry points leave alone.
cruxVars == <<processedData, assessment>>

serverVars == <<request, validation, logs, response>>

otherVars == <<pitch, cruxVars, pagespeedData, serverVars>>

vars == <<impl, analysis, auditId, pc, outcome, recommendation, campaignData,
          recommendations, solution_count, otherVars>>

Impls == {"ts", "js"}

\* AZION_SOLUTIONS of the TypeScript service (azion-solutions.ts:4-209). Each record keeps
\* the fields the aggregation code reads: id and name.
AZION_SOLUTIONS_TS ==
    ("applications" :> [id |-> "applications", name |-> "Applications"]) @@
    ("functions" :> [id |-> "functions", name |-> "Functions"]) @@
    ("cache" :> [id |-> "cache", name |-> "Cache"]) @@
    ("tiered_cache" :> [id |-> "tiered_cache", name |-> "Tiered Cache"]) @@
    ("image_processor" :> [id |-> "image_processor", name |-> "Image Processor"]) @@
    ("firewall" :> [id |-> "firewall", name |-> "Firewall"]) @@
    ("load_balancer" :> [id |-> "load_balancer", name |-> "Load Balancer"]) @@
    ("best_practices_review" :> [id |-> "best_practices_review", name |-> "Best Practices Review"])

\* PAGESPEED_TO_AZION_MAPPING of the TypeScript service (azion-solutions.ts:212-297): audit id -> solution ids, priority and rationale.
PAGESPEED_TO_AZION_MAPPING_TS ==
    ("server-response-time" :>
        [solutions |-> <<"cache", "tiered_cache", "load_balancer", "functions">>,
         priority |-> "high",
         description |->
            "Dramatically improve server response times with multi-layer caching, load balancing, and edge processing"]) @@
    ("render-blocking-resources" :>
        [solutions |-> <<"functions", "applications", "cache">>,
         priority |-> "high",
         description |->
            "Use Edge Functions to inline critical CSS/JS, modify resource loading order, and implement advanced optimization techniques"]) @@
    ("unused-css-rules" :>
        [solutions |-> <<"best_practices_review">>,
         priority |-> "medium",
         description |->
            "Azion's Best Practices Review service provides expert analysis to identify and remove unused CSS rules from your source code, along with recommendations for CSS optimization and build process improvements"]) @@
    ("unused-javascript" :>
        [solutions |-> <<"best_practices_review">>,
         priority |-> "medium",
         description |->
            "Azion's Best Practices Review service provides expert analysis to identify and remove unused JavaScript code from your source code, along with recommendations for tree-shaking, code splitting, and build optimization strategies"]) @@
    ("modern-image-formats" :>
        [solutions |-> <<"image_processor", "functions">>,
         priority |-> "high",
         description |->
            "Automatically convert images to WebP/AVIF formats with intelligent browser detection and quality optimization"]) @@
    ("uses-webp-images" :>
        [solutions |-> <<"image_processor", "cache">>,
         priority |-> "high",
         description |->
            "Serve WebP images automatically based on browser support with intelligent caching strategies"]) @@
    ("uses-optimized-images" :>
        [solutions |-> <<"image_processor", "cache", "functions">>,
         priority |-> "high",
         description |->
            "Comprehensive image optimization including compression, resizing, format conversion, and smart caching"]) @@
    ("uses-text-compression" :>
        [solutions |-> <<"applications", "cache">>,
         priority |-> "high",
         description |->
            "Enable automatic GZIP/Brotli compression for all text-based content (HTML, CSS, JS, JSON, XML) with intelligent algorithm selection based on content type and client support. Azion Applications provide built-in compression with intelligent caching strategies."]) @@
    ("uses-long-cache-ttl" :>
        [solutions |-> <<"cache", "tiered_cache", "applications">>,
         priority |-> "high",
         description |->
            "Configure optimal cache TTL values with intelligent cache policies and multi-layer caching architecture"]) @@
    ("is-on-https" :>
        [solutions |-> <<"applications", "load_balancer">>,
         priority |-> "high",
         description |->
            "Enforce HTTPS connections with automatic certificate management, SSL/TLS termination, and security headers"]) @@
    ("no-vulnerable-libraries" :>
        [solutions |-> <<"firewall", "functions", "applications">>,
         priority |-> "high",
         description |->
            "Block requests targeting vulnerable libraries, implement security scanning, and update dependencies automatically"]) @@
    ("csp-xss" :>
        [solutions |-> <<"firewall", "functions", "applications">>,
         priority |-> "high",
         description |->
            "Implement Content Security Policy headers, XSS protection, and comprehensive security rule enforcement"]) @@
    ("largest-contentful-paint" :>
        [solutions |-> <<"cache", "image_processor", "functions", "tiered_cache">>,
         priority |-> "high",
         description |->
            "Optimize LCP through intelligent caching, image optimization, and critical resource prioritization"]) @@
    ("cumulative-layout-shift" :>
        [solutions |-> <<"best_practices_review">>,
         priority |-> "high",
         description |->
            "Azion's Best Practices Review service provides expert guidance for preventing Cumulative Layout Shift through source code improvements, including proper image and video sizing, font loading optimization, and dynamic content insertion best practices"]) @@
    ("errors-in-console" :>
        [solutions |-> <<"functions", "applications", "firewall">>,
         priority |-> "high",
         description |->
            "Fix JavaScript errors and console warnings through edge-side error handling and monitoring"]) @@
    ("image-alt" :>
        [solutions |-> <<"best_practices_review">>,
         priority |-> "high",
         description |->
            "Azion's Best Practices Review service provides expert guidance for adding proper alt attributes to images in your source code, including accessibility best practices, SEO optimization, and automated testing strategies for image accessibility compliance"])

\* AZION_SOLUTIONS of the JavaScript module (azion_solutions.js:7-316). Its records
\* carry no id field; the resolver adds it.
AZION_SOLUTIONS_JS ==
    ("applications" :> [name |-> "Applications"]) @@
    ("functions" :> [name |-> "Functions"]) @@
    ("cache" :> [name |-> "Cache"]) @@
    ("tiered_cache" :> [name |-> "Tiered Cache"]) @@
    ("image_processor" :> [name |-> "Image Processor"]) @@
    ("firewall" :> [name |-> "Firewall"]) @@
    ("load_balancer" :> [name |-> "Load Balancer"]) @@
    ("object_storage" :> [name |-> "Object Storage"]) @@
    ("sql_database" :> [name |-> "SQL Database"]) @@
    ("edge_dns" :> [name |-> "Edge DNS"]) @@
    ("ai_inference" :> [name |-> "AI Inference"]) @@
    ("certificate_manager" :> [name |-> "Certificate Manager"]) @@
    ("best_practices_review" :> [name |-> "Best Practices Review"])

\* PAGESPEED_TO_AZION_MAPPING of the JavaScript module (azion_solutions.js:322-709): audit id -> solution ids, priority and rationale.
PAGESPEED_TO_AZION_MAPPING_JS ==
    ("server-response-time" :>
        [solutions |-> <<"cache", "tiered_cache", "load_balancer", "functions">>,
         priority |-> "high",
         description |->
            "Dramatically improve server response times with multi-layer caching, load balancing, and edge processing"]) @@
    ("render-blocking-resources" :>
        [solutions |-> <<"functions", "applications", "cache">>,
         priority |-> "high",
         description |->
            "Use Edge Functions to inline critical CSS/JS, modify resource loading order, and implement advanced optimization techniques"]) @@
    ("unused-css-rules" :>
        [solutions |-> <<"best_practices_review">>,
         priority |-> "medium",
         description |->
            "Azion's Best Practices Review service provides expert analysis to identify and remove unused CSS rules from your source code, along with recommendations for CSS optimization and build process improvements"]) @@
    ("unused-javascript" :>
        [solutions |-> <<"best_practices_review">>,
         priority |-> "medium",
         description |->
            "Azion's Best Practices Review service provides expert analysis to identify and remove unused JavaScript code from your source code, along with recommendations for tree-shaking, code splitting, and build optimization strategies"]) @@
    ("modern-image-formats" :>
        [solutions |-> <<"image_processor", "functions">>,
         priority |-> "high",
         description |->
            "Automatically convert images to WebP/AVIF formats with intelligent browser detection and quality optimization"]) @@
    ("uses-webp-images" :>
        [solutions |-> <<"image_processor", "cache">>,
         priority |-> "high",
         description |->
            "Serve WebP images automatically based on browser support with intelligent caching strategies"]) @@
    ("uses-optimized-images" :>
        [solutions |-> <<"image_processor", "cache", "functions">>,
         priority |-> "high",
         description |->
            "Comprehensive image optimization including compression, resizing, format conversion, and smart caching"]) @@
    ("uses-responsive-images" :>
        [solutions |-> <<"image_processor", "functions", "applications">>,
         priority |-> "medium",
         description |->
            "Serve appropriately sized images based on device, viewport, and network conditions using adaptive delivery"]) @@
    ("offscreen-images" :>
        [solutions |-> <<"image_processor", "functions", "cache">>,
         priority |-> "medium",
         description |->
            "Implement intelligent lazy loading, optimize off-screen image delivery, and progressive image loading"]) @@
    ("uses-text-compression" :>
        [solutions |-> <<"applications", "cache">>,
         priority |-> "high",
         description |->
            "Enable automatic GZIP/Brotli compression for all text-based content (HTML, CSS, JS, JSON, XML) with intelligent algorithm selection based on content type and client support. Azion Applications provide built-in compression with intelligent caching strategies."]) @@
    ("unminified-css" :>
        [solutions |-> <<"best_practices_review">>,
         priority |-> "medium",
         description |->
            "Azion's Best Practices Review service provides expert recommendations for implementing CSS minification in your build process, along with build tool configuration and optimization strategies for maximum size reduction"]) @@
    ("unminified-javascript" :>
        [solutions |-> <<"best_practices_review">>,
         priority |-> "medium",
         description |->
            "Azion's Best Practices Review service provides expert recommendations for implementing JavaScript minification in your build process, including bundling optimization, tree-shaking configuration, and build tool setup"]) @@
    ("uses-long-cache-ttl" :>
        [solutions |-> <<"cache", "tiered_cache", "applications">>,
         priority |-> "high",
         description |->
            "Configure optimal cache TTL values with intelligent cache policies and multi-layer caching architecture"]) @@
    ("total-byte-weight" :>
        [solutions |-> <<"image_processor", "applications", "cache", "tiered_cache">>,
         priority |-> "medium",
         description |->
            "Comprehensive payload reduction through image optimization, text compression (GZIP/Brotli), intelligent caching, and edge processing"]) @@
    ("uses-http2" :>
        [solutions |-> <<"applications", "load_balancer", "cache">>,
         priority |-> "medium",
         description |->
            "Enable HTTP/2 and HTTP/3 for multiplexed connections, server push, and enhanced performance"]) @@
    ("efficient-animated-content" :>
        [solutions |-> <<"image_processor", "functions", "cache">>,
         priority |-> "medium",
         description |->
            "Convert animated GIFs to optimized video formats with intelligent format selection and caching"]) @@
    ("is-on-https" :>
        [solutions |-> <<"applications", "certificate_manager", "load_balancer">>,
         priority |-> "high",
         description |->
            "Enforce HTTPS connections with automatic certificate management, SSL/TLS termination, and security headers"]) @@
    ("no-vulnerable-libraries" :>
        [solutions |-> <<"firewall", "functions", "applications">>,
         priority |-> "high",
         description |->
            "Block requests targeting vulnerable libraries, implement security scanning, and update dependencies automatically"]) @@
    ("external-anchors-use-rel-noopener" :>
        [solutions |-> <<"functions", "firewall", "applications">>,
         priority |-> "medium",
         description |->
            "Add security headers, modify HTML to include rel='noopener', and implement comprehensive link security"]) @@
    ("csp-xss" :>
        [solutions |-> <<"firewall", "functions", "applications">>,
         priority |-> "high",
         description |->
            "Implement Content Security Policy headers, XSS protection, and comprehensive security rule enforcement"]) @@
    ("crawlable-anchors" :>
        [solutions |-> <<"functions", "applications", "cache">>,
         priority |-> "medium",
         description |->
            "Ensure proper URL structure, crawlable navigation, and SEO-optimized routing with edge processing"]) @@
    ("robots-txt" :>
        [solutions |-> <<"functions", "applications", "object_storage">>,
         priority |-> "low",
         description |->
            "Serve optimized robots.txt files based on environment, user agent, and dynamic SEO requirements"]) @@
    ("canonical" :>
        [solutions |-> <<"functions", "applications">>,
         priority |-> "medium",
         description |->
            "Add canonical URLs dynamically, prevent duplicate content, and implement intelligent URL normalization"]) @@
    ("hreflang" :>
        [solutions |-> <<"functions", "applications", "edge_dns">>,
         priority |-> "medium",
         description |->
            "Implement hreflang tags for international SEO with geolocation-based routing and content delivery"]) @@
    ("image-alt" :>
        [solutions |-> <<"best_practices_review">>,
         priority |-> "high",
         description |->
            "Azion's Best Practices Review service provides expert guidance for adding proper alt attributes to images in your source code, including accessibility best practices, SEO optimization, and automated testing strategies for image accessibility compliance"]) @@
    ("label" :>
        [solutions |-> <<"functions", "applications">>,
         priority |-> "high",
         description |->
            "Inject proper form labels and ARIA attributes at the edge to improve accessibility"]) @@
    ("link-name" :>
        [solutions |-> <<"best_practices_review">>,
         priority |-> "high",
         description |->
            "Azion's Best Practices Review service provides expert recommendations for improving link accessibility in your source code, including descriptive link text, ARIA labels, and accessibility testing strategies to ensure proper screen reader compatibility"]) @@
    ("button-name" :>
        [solutions |-> <<"functions", "applications">>,
         priority |-> "high",
         description |->
            "Add accessible names to buttons using edge-side DOM manipulation and ARIA enhancements"]) @@
    ("heading-order" :>
        [solutions |-> <<"functions", "applications">>,
         priority |-> "medium",
         description |->
            "Restructure heading hierarchy at the edge to ensure proper semantic order"]) @@
    ("html-has-lang" :>
        [solutions |-> <<"functions", "applications">>,
         priority |-> "high",
         description |->
            "Add language attributes to HTML elements based on geolocation and content analysis"]) @@
    ("html-lang-valid" :>
        [solutions |-> <<"functions", "applications">>,
         priority |-> "medium",
         description |->
            "Validate and correct language attributes using edge-side content processing"]) @@
    ("frame-title" :>
        [solutions |-> <<"functions", "applications">>,
         priority |-> "medium",
         description |->
            "Add descriptive titles to iframe elements for improved accessibility"]) @@
    ("duplicate-id-active" :>
        [solutions |-> <<"functions", "applications">>,
         priority |-> "high",
         description |->
            "Fix duplicate IDs in interactive elements using edge-side DOM processing"]) @@
    ("duplicate-id-aria" :>
        [solutions |-> <<"functions", "applications">>,
         priority |-> "high",
         description |->
            "Resolve duplicate ARIA IDs to ensure proper accessibility support"]) @@
    ("meta-viewport" :>
        [solutions |-> <<"functions", "applications">>,
         priority |-> "high",
         description |->
            "Add or optimize viewport meta tags for responsive design and accessibility"]) @@
    ("tabindex" :>
        [solutions |-> <<"functions", "applications">>,
         priority |-> "medium",
         description |->
            "Optimize tab order and remove problematic tabindex values at the edge"]) @@
    ("video-caption" :>
        [solutions |-> <<"functions", "ai_inference">>,
         priority |-> "high",
         description |->
            "Generate and inject video captions using AI-powered transcription services"]) @@
    ("aria-required-attr" :>
        [solutions |-> <<"functions", "applications">>,
         priority |-> "high",
         description |->
            "Add missing required ARIA attributes to improve screen reader compatibility"]) @@
    ("aria-valid-attr" :>
        [solutions |-> <<"functions", "applications">>,
         priority |-> "medium",
         description |->
            "Validate and correct ARIA attributes using edge-side processing"]) @@
    ("bypass" :>
        [solutions |-> <<"functions", "applications">>,
         priority |-> "high",
         description |->
            "Add skip links and navigation bypasses for keyboard users"]) @@
    ("third-party-summary" :>
        [solutions |-> <<"functions", "firewall", "applications">>,
         priority |-> "medium",
         description |->
            "Control and optimize third-party resource loading with intelligent filtering and performance monitoring"]) @@
    ("bootup-time" :>
        [solutions |-> <<"best_practices_review">>,
         priority |-> "medium",
         description |->
            "Azion's Best Practices Review service provides expert analysis of JavaScript execution time issues, including code splitting strategies, bundle optimization, lazy loading implementation, and build process improvements to reduce main thread blocking time"]) @@
    ("mainthread-work-breakdown" :>
        [solutions |-> <<"best_practices_review">>,
         priority |-> "medium",
         description |->
            "Azion's Best Practices Review service provides expert analysis of main thread work optimization, including JavaScript performance profiling, code splitting recommendations, Web Workers implementation, and async/await optimization strategies to reduce main thread blocking"]) @@
    ("largest-contentful-paint" :>
        [solutions |-> <<"cache", "image_processor", "functions", "tiered_cache">>,
         priority |-> "high",
         description |->
            "Optimize LCP through intelligent caching, image optimization, and critical resource prioritization"]) @@
    ("cumulative-layout-shift" :>
        [solutions |-> <<"best_practices_review">>,
         priority |-> "high",
         description |->
            "Azion's Best Practices Review service provides expert guidance for preventing Cumulative Layout Shift through source code improvements, including proper image and video sizing, font loading optimization, and dynamic content insertion best practices"]) @@
    ("first-input-delay" :>
        [solutions |-> <<"best_practices_review">>,
         priority |-> "high",
         description |->
            "Azion's Best Practices Review service provides expert recommendations for reducing First Input Delay through client-side JavaScript optimization, including code splitting, event handler optimization, and main thread work reduction strategies"]) @@
    ("interaction-to-next-paint" :>
        [solutions |-> <<"best_practices_review">>,
         priority |-> "high",
         description |->
            "Azion's Best Practices Review service provides expert analysis for optimizing Interaction to Next Paint through client-side performance improvements, including event handler optimization, DOM manipulation efficiency, and JavaScript execution optimization"]) @@
    ("dns-prefetch" :>
        [solutions |-> <<"edge_dns", "functions", "applications">>,
         priority |-> "medium",
         description |->
            "Optimize DNS resolution with intelligent prefetching, authoritative DNS hosting, and traffic management"]) @@
    ("static-assets" :>
        [solutions |-> <<"object_storage", "cache", "tiered_cache">>,
         priority |-> "medium",
         description |->
            "Optimize static asset delivery with S3-compatible storage, global edge distribution, and zero egress fees"]) @@
    ("geolocation-on-start" :>
        [solutions |-> <<"functions", "firewall">>,
         priority |-> "medium",
         description |->
            "Implement user consent management and geolocation controls at the edge"]) @@
    ("notification-on-start" :>
        [solutions |-> <<"functions", "applications">>,
         priority |-> "medium",
         description |->
            "Manage notification permissions with user-friendly consent flows"]) @@
    ("password-inputs-can-be-pasted-into" :>
        [solutions |-> <<"functions", "applications">>,
         priority |-> "high",
         description |->
            "Remove paste restrictions on password fields to improve security and UX"]) @@
    ("has-doctype" :>
        [solutions |-> <<"functions", "applications">>,
         priority |-> "high",
         description |->
            "Ensure proper DOCTYPE declarations are present in all HTML documents"]) @@
    ("charset" :>
        [solutions |-> <<"functions", "applications">>,
         priority |-> "high",
         description |->
            "Add proper character encoding declarations to prevent rendering issues"]) @@
    ("js-libraries" :>
        [solutions |-> <<"functions", "firewall">>,
         priority |-> "high",
         description |->
            "Scan and update vulnerable JavaScript libraries with security monitoring"]) @@
    ("deprecations" :>
        [solutions |-> <<"best_practices_review">>,
         priority |-> "medium",
         description |->
            "Azion's Best Practices Review service provides expert guidance for replacing deprecated APIs and features with modern alternatives, including migration strategies and compatibility recommendations"]) @@
    ("third-party-cookies" :>
        [solutions |-> <<"functions", "firewall">>,
         priority |-> "high",
         description |->
            "Manage third-party cookies and implement privacy-compliant tracking solutions"]) @@
    ("inspector-issues" :>
        [solutions |-> <<"functions", "applications">>,
         priority |-> "medium",
         description |->
            "Fix browser console errors and warnings through edge-side optimization"]) @@
    ("appcache-manifest" :>
        [solutions |-> <<"functions", "applications">>,
         priority |-> "medium",
         description |->
            "Replace deprecated AppCache with modern service worker implementations"]) @@
    ("image-aspect-ratio" :>
        [solutions |-> <<"image_processor", "functions">>,
         priority |-> "medium",
         description |->
            "Maintain proper image aspect ratios to prevent layout shifts"]) @@
    ("image-size-responsive" :>
        [solutions |-> <<"image_processor", "functions">>,
         priority |-> "high",
         description |->
            "Generate responsive images with appropriate sizes for different devices"]) @@
    ("preload-fonts" :>
        [solutions |-> <<"functions", "cache">>,
         priority |-> "medium",
         description |->
            "Optimize font loading with intelligent preloading and edge caching"]) @@
    ("errors-in-console" :>
        [solutions |-> <<"functions", "applications", "firewall">>,
         priority |-> "high",
         description |->
            "Fix JavaScript errors and console warnings through edge-side error handling and monitoring"]) @@
    ("structured-data" :>
        [solutions |-> <<"functions", "applications">>,
         priority |-> "high",
         description |->
            "Inject structured data markup for improved search engine understanding"]) @@
    ("http-status-code" :>
        [solutions |-> <<"functions", "applications", "edge_dns">>,
         priority |-> "high",
         description |->
            "Ensure proper HTTP status codes and implement intelligent redirects"]) @@
    ("link-text" :>
        [solutions |-> <<"functions", "applications">>,
         priority |-> "medium",
         description |->
            "Optimize link text for better SEO and accessibility"]) @@
    ("plugins" :>
        [solutions |-> <<"functions", "applications">>,
         priority |-> "high",
         description |->
            "Replace plugin-dependent content with modern web technologies"]) @@
    ("legacy-javascript" :>
        [solutions |-> <<"best_practices_review">>,
         priority |-> "medium",
         description |->
            "Azion's Best Practices Review service provides expert recommendations for modernizing legacy JavaScript code, including ES6+ migration strategies, polyfill optimization, and build process improvements for better browser compatibility"]) @@
    ("preload-lcp-image" :>
        [solutions |-> <<"functions", "cache", "image_processor">>,
         priority |-> "high",
         description |->
            "Preload Largest Contentful Paint images for faster rendering"]) @@
    ("uses-rel-preconnect" :>
        [solutions |-> <<"functions", "edge_dns">>,
         priority |-> "medium",
         description |->
            "Add preconnect hints for critical third-party resources"]) @@
    ("uses-rel-preload" :>
        [solutions |-> <<"functions", "cache">>,
         priority |-> "medium",
         description |->
            "Implement resource preloading for critical assets"]) @@
    ("critical-request-chains" :>
        [solutions |-> <<"functions", "cache", "tiered_cache">>,
         priority |-> "high",
         description |->
            "Optimize critical resource loading chains and dependencies"]) @@
    ("user-timings" :>
        [solutions |-> <<"data_streaming", "functions">>,
         priority |-> "low",
         description |->
            "Implement performance monitoring and user timing collection"])

(***************************************************************************)
(* JavaScript object semantics used by the lookups.                        *)
(***************************************************************************)

\* The property names every object literal inherits from Object.prototype.
\* `key in obj` is true for them and `obj[key]` is a truthy function (or, for
\* __proto__, a truthy object) that has no `solutions` property.
ObjectPrototypeKeys ==
    {"constructor", "hasOwnProperty", "isPrototypeOf", "propertyIsEnumerable",
     "toLocaleString", "toString", "valueOf", "__proto__",
     "__defineGetter__", "__defineSetter__", "__lookupGetter__",
     "__lookupSetter__"}

Mapping(i) ==
    IF i = "ts" THEN PAGESPEED_TO_AZION_MAPPING_TS
                ELSE PAGESPEED_TO_AZION_MAPPING_JS

Catalog(i) == IF i = "ts" THEN AZION_SOLUTIONS_TS ELSE AZION_SOLUTIONS_JS

\* ts: `auditId in PAGESPEED_TO_AZION_MAPPING`; js: the truthiness of
\* `PAGESPEED_TO_AZION_MAPPING[auditId]`.  Both see inherited properties.
MappingLookupSucceeds(table, id) ==
    id \in DOMAIN table \/ id \in ObjectPrototypeKeys

\* ts: `solutionId in AZION_SOLUTIONS`; js: `AZION_SOLUTIONS[solutionId]`.
\* No mapping lists an inherited property name, so own keys decide.
InCatalog(i, solutionId) == solutionId \in DOMAIN Catalog(i)

\* The record pushed for one catalog hit: the catalog record itself (ts), or
\* a copy of it with the id added (js).
CatalogRecord(i, solutionId) ==
    [id |-> solutionId, name |-> Catalog(i)[solutionId].name]

\* ResolveSolutions as it would be if a missing catalog entry ended the loop
\* (break) instead of being skipped.
RECURSIVE ResolveSolutions_Break(_, _)
ResolveSolutions_Break(i, ids) ==
    IF ids = <<>> THEN <<>>
    ELSE IF InCatalog(i, Head(ids))
         THEN <<CatalogRecord(i, Head(ids))>>
                \o ResolveSolutions_Break(i, Tail(ids))
         ELSE <<>>

\* ResolveSolutions as it would be if each hit were put in front of the list
\* (unshift) instead of behind it (push).
RECURSIVE ResolveSolutions_Unshift(_, _)
ResolveSolutions_Unshift(i, ids) ==
    IF ids = <<>> THEN <<>>
    ELSE IF InCatalog(i, Head(ids))
         THEN ResolveSolutions_Unshift(i, Tail(ids))
                \o <<CatalogRecord(i, Head(ids))>>
         ELSE ResolveSolutions_Unshift(i, Tail(ids))

\* The loop of getAzionSolutionsForAudit over mapping.solutions.
RECURSIVE ResolveSolutions(_, _)
ResolveSolutions(i, ids) ==
    IF ids = <<>> THEN <<>>
    ELSE IF InCatalog(i, Head(ids))
         THEN <<CatalogRecord(i, Head(ids))>> \o ResolveSolutions(i, Tail(ids))
         ELSE ResolveSolutions(i, Tail(ids))

\* The object getAzionSolutionsForAudit returns for the table entry mapping.
Recommendation(i, id, mapping, auditData) ==
    [kind |-> "value",
     audit_id |-> id,
     priority |-> mapping.priority,
     description |-> mapping.description,
     solutions |-> ResolveSolutions(i, mapping.solutions),
     audit_data |-> auditData]

\* The body of getAzionSolutionsForAudit over the table of implementation i.
\* An inherited property passes the membership test, has no `solutions`, and
\* the for...of over undefined throws a TypeError.
LookupAudit(i, table, id, auditData) ==
    IF ~MappingLookupSucceeds(table, id)
    THEN [kind |-> "null"]
    ELSE IF id \notin DOMAIN table
    THEN [kind |-> "throw"]
    ELSE Recommendation(i, id, table[id], auditData)

\* getAzionSolutionsForAudit.  kind is "null" (returned null), "value" (returned
\* a recommendation) or "throw" (TypeError: mapping.solutions is not iterable).
getAzionSolutionsForAudit(i, id, auditData) ==
    LookupAudit(i, Mapping(i), id, auditData)

(***************************************************************************)
(* Small helpers for JavaScript collections.                               *)
(***************************************************************************)

Range(s) == {s[k] : k \in 1..Len(s)}

Min(a, b) == IF a < b THEN a ELSE b

\* SetAdd as it would be if the collection were an array that is pushed to.
SetAdd_Push(s, x) == Append(s, x)

\* Set.prototype.add on a Set kept in insertion order.
SetAdd(s, x) == IF x \in Range(s) THEN s ELSE Append(s, x)

RECURSIVE SetAddAll(_, _)
SetAddAll(s, xs) ==
    IF xs = <<>> THEN s ELSE SetAddAll(SetAdd(s, Head(xs)), Tail(xs))

\* Array.prototype.slice(0, n)
Slice(s, n) == SubSeq(s, 1, Min(n, Len(s)))

(***************************************************************************)
(* generateMarketingCampaignData                                           *)
(***************************************************************************)

\* The summary both implementations start from; createEmptyMarketingData
\* builds the same record with estimated_impact 'low'.
EmptySummary(impact) ==
    [total_issues |-> 0,
     high_priority_issues |-> 0,
     medium_priority_issues |-> 0,
     low_priority_issues |-> 0,
     potential_solutions |-> <<>>,
     estimated_impact |-> impact,
     console_errors |-> [has_console_errors |-> FALSE,
                         total_console_errors |-> 0,
                         error_types |-> <<>>]]

EmptyCampaignData(impact) ==
    [summary |-> EmptySummary(impact),
     categories |-> <<>>,
     solutions_overview |-> <<>>,
     action_plan |-> <<>>]

\* createEmptyMarketingData as it would be with the estimated impact the
\* aggregator's own summary starts from.
createEmptyMarketingData_High == EmptyCampaignData("high")

createEmptyMarketingData == EmptyCampaignData("low")

\* ErrorSource as it would be without the `|| 'console.error'` default.
ErrorSource_NoDefault(src) == src

\* error.source || 'console.error'; an absent source is the empty string.
ErrorSource(src) == IF src = "" THEN "console.error" ELSE src

\* [...new Set(audit.console_errors.map(error => error.source || 'console.error'))]
RECURSIVE ErrorTypes(_)
ErrorTypes(errors) ==
    IF errors = <<>> THEN <<>>
    ELSE LET rest == ErrorTypes(SubSeq(errors, 1, Len(errors) - 1))
         IN  SetAdd(rest, ErrorSource(errors[Len(errors)].source))

\* `auditId === 'errors-in-console' && audit.console_errors`
CarriesConsoleErrors(audit) ==
    audit.id = "errors-in-console" /\ audit.has_console_errors

\* The console_error_summary attached to the copied audit (absent: <<>>).
ConsoleErrorSummary(audit) ==
    IF CarriesConsoleErrors(audit)
    THEN <<[total_errors |-> audit.console_error_count,
            error_types |-> ErrorTypes(audit.console_errors),
            sample_errors |-> Slice(audit.console_errors, 3)]>>
    ELSE <<>>

\* UpdateConsoleErrors as it would be if the block were accumulated over the
\* issues instead of assigned.
UpdateConsoleErrors_Accumulate(block, audit) ==
    IF CarriesConsoleErrors(audit)
    THEN [has_console_errors |-> TRUE,
          total_console_errors |->
              block.total_console_errors + audit.console_error_count,
          error_types |->
              SetAddAll(block.error_types, ErrorTypes(audit.console_errors))]
    ELSE block

\* The three assignments under "Update campaign summary".
UpdateConsoleErrors(block, audit) ==
    IF CarriesConsoleErrors(audit)
    THEN [has_console_errors |-> TRUE,
          total_console_errors |-> audit.console_error_count,
          error_types |-> ErrorTypes(audit.console_errors)]
    ELSE block

\* The if / else if / else over azionSolution.priority.
CountPriority(summary, priority) ==
    IF priority = "high"
    THEN [summary EXCEPT !.high_priority_issues = @ + 1]
    ELSE IF priority = "medium"
    THEN [summary EXCEPT !.medium_priority_issues = @ + 1]
    ELSE [summary EXCEPT !.low_priority_issues = @ + 1]

SolutionIds(solutions) == [k \in 1..Len(solutions) |-> solutions[k].id]

SolutionNames(solutions) == [k \in 1..Len(solutions) |-> solutions[k].name]

\* RecordAudit as it would be if the counters were keyed by the issue's
\* impact instead of the recommendation's priority.
RecordAudit_ByImpact(st, audit, azionSolution) ==
    IF azionSolution.kind = "throw" THEN [st EXCEPT !.threw = TRUE]
    ELSE IF azionSolution.kind = "null" THEN st
    ELSE [st EXCEPT
            !.categoryIssues = Append(@,
                [audit |-> audit,
                 console_error_summary |-> ConsoleErrorSummary(audit),
                 azion_solution |-> azionSolution,
                 severity |-> IF audit.impact = "" THEN "medium"
                              ELSE audit.impact]),
            !.summary = CountPriority(
                [st.summary EXCEPT
                    !.console_errors = UpdateConsoleErrors(@, audit),
                    !.total_issues = @ + 1],
                audit.impact),
            !.potentialSolutions =
                SetAddAll(@, SolutionIds(azionSolution.solutions))]

\* The body of `if (azionSolution)` in the loop over categoryData.issues
\* (a throwing resolver ends the call).  st carries the campaign
\* summary, the Set of potential solutions, the category's working list and
\* whether an exception is propagating.
RecordAudit(st, audit, azionSolution) ==
    IF azionSolution.kind = "throw" THEN [st EXCEPT !.threw = TRUE]
    ELSE IF azionSolution.kind = "null" THEN st
    ELSE [st EXCEPT
            !.categoryIssues = Append(@,
                [audit |-> audit,
                 console_error_summary |-> ConsoleErrorSummary(audit),
                 azion_solution |-> azionSolution,
                 severity |-> IF audit.impact = "" THEN "medium"
                              ELSE audit.impact]),
            !.summary = CountPriority(
                [st.summary EXCEPT
                    !.console_errors = UpdateConsoleErrors(@, audit),
                    !.total_issues = @ + 1],
                azionSolution.priority),
            !.potentialSolutions =
                SetAddAll(@, SolutionIds(azionSolution.solutions))]

\* `if (auditId)` and the call of the resolver.
ProcessAudit(i, st, audit) ==
    IF st.threw \/ audit.id = "" THEN st
    ELSE RecordAudit(st, audit, getAzionSolutionsForAudit(i, audit.id, audit))

RECURSIVE ProcessAudits(_, _, _)
ProcessAudits(i, st, issues) ==
    IF issues = <<>> THEN st
    ELSE ProcessAudits(i, ProcessAudit(i, st, Head(issues)), Tail(issues))

\* The guard at the top of the category loop: "skip" (continue), "process" or
\* "throw".  ts: !categoryData || typeof categoryData !== 'object' ||
\* !('score' in categoryData).  js: typeof categoryData !== 'object' ||
\* !categoryData.score, where typeof null is 'object' and null.score throws.
CategoryGuard(i, categoryData) ==
    IF i = "ts"
    THEN IF categoryData.kind # "object" \/ ~categoryData.hasScore
         THEN "skip" ELSE "process"
    ELSE IF categoryData.kind = "string" THEN "skip"
         ELSE IF categoryData.kind = "null" THEN "throw"
         ELSE IF ~categoryData.hasScore \/ categoryData.score = 0
         THEN "skip" ELSE "process"

\* ts: 'issues' in categoryData && Array.isArray(categoryData.issues);
\* js: the truthiness of categoryData.issues.
HasIssueList(categoryData) == categoryData.hasIssues

\* `if (categoryIssues.length > 0)`: the category is recorded under its name.
EmitCategory(st, entry) ==
    IF st.threw \/ st.categoryIssues = <<>> THEN st
    ELSE [st EXCEPT !.categories = Append(@,
            [name |-> entry.name,
             score |-> entry.data.score,
             issues |-> st.categoryIssues,
             issue_count |-> Len(st.categoryIssues)])]

\* One iteration of the loop over Object.entries(pagespeedAnalysis).
ProcessCategory(i, st, entry) ==
    IF st.threw THEN st
    ELSE IF CategoryGuard(i, entry.data) = "throw"
    THEN [st EXCEPT !.threw = TRUE]
    ELSE IF CategoryGuard(i, entry.data) = "skip" THEN st
    ELSE EmitCategory(
            ProcessAudits(i, [st EXCEPT !.categoryIssues = <<>>],
                          IF HasIssueList(entry.data) THEN entry.data.issues
                          ELSE <<>>),
            entry)

RECURSIVE ProcessCategories(_, _, _)
ProcessCategories(i, st, entries) ==
    IF entries = <<>> THEN st
    ELSE ProcessCategories(i, ProcessCategory(i, st, Head(entries)),
                           Tail(entries))

\* The ids of potential_solutions found in the catalog, in order.
RECURSIVE SolutionsOverview(_, _)
SolutionsOverview(i, ids) ==
    IF ids = <<>> THEN <<>>
    ELSE IF InCatalog(i, Head(ids))
         THEN <<Head(ids)>> \o SolutionsOverview(i, Tail(ids))
         ELSE SolutionsOverview(i, Tail(ids))

\* allIssues.push(...category.issues) over Object.values(categories).
RECURSIVE AllIssues(_)
AllIssues(categories) ==
    IF categories = <<>> THEN <<>>
    ELSE Head(categories).issues \o AllIssues(Tail(categories))

\* priorityOrder[priority] || 0
priorityOrder(priority) ==
    CASE priority = "high" -> 3
      [] priority = "medium" -> 2
      [] priority = "low" -> 1
      [] OTHER -> 0

\* SortComparator as it would be with the priority difference taken the
\* other way round (aPriority - bPriority).
SortComparator_Ascending(i, a, b) ==
    LET aPriority == priorityOrder(a.azion_solution.priority)
        bPriority == priorityOrder(b.azion_solution.priority)
    IN  IF aPriority # bPriority THEN aPriority - bPriority
        ELSE b.audit.score - a.audit.score

\* The comparator handed to allIssues.sort.  ts returns
\* (b.audit.score || 0) - (a.audit.score || 0); js returns aScore - bScore
\* with aScore = -(a.audit.score || 0) and bScore = -(b.audit.score || 0).
SortComparator(i, a, b) ==
    LET aPriority == priorityOrder(a.azion_solution.priority)
        bPriority == priorityOrder(b.azion_solution.priority)
    IN  IF aPriority # bPriority THEN bPriority - aPriority
        ELSE IF i = "ts" THEN b.audit.score - a.audit.score
        ELSE (0 - a.audit.score) - (0 - b.audit.score)

\* InsertSorted as it would be for a sort that is not stable: an element goes
\* in front of the elements it compares equal to.
RECURSIVE InsertSorted_Unstable(_, _, _)
InsertSorted_Unstable(i, sorted, x) ==
    IF sorted = <<>> THEN <<x>>
    ELSE IF SortComparator(i, Head(sorted), x) < 0
         THEN <<Head(sorted)>> \o InsertSorted_Unstable(i, Tail(sorted), x)
         ELSE <<x>> \o sorted

\* Array.prototype.sort is stable: an element goes behind every element that
\* does not compare greater than it.
RECURSIVE InsertSorted(_, _, _)
InsertSorted(i, sorted, x) ==
    IF sorted = <<>> THEN <<x>>
    ELSE IF SortComparator(i, Head(sorted), x) <= 0
         THEN <<Head(sorted)>> \o InsertSorted(i, Tail(sorted), x)
         ELSE <<x>> \o sorted

RECURSIVE StableSort(_, _)
StableSort(i, s) ==
    IF s = <<>> THEN <<>>
    ELSE InsertSorted(i, StableSort(i, SubSeq(s, 1, Len(s) - 1)), s[Len(s)])

\* The number of recommendations the action plan keeps: slice(0, 10).
ActionPlanSize == 10

\* The actionItem literal.
ActionItem(issue) ==
    [title |-> IF issue.audit.title = "" THEN "Performance Issue"
               ELSE issue.audit.title,
     description |-> issue.azion_solution.description,
     priority |-> issue.azion_solution.priority,
     category |-> IF issue.audit.category = "" THEN "performance"
                  ELSE issue.audit.category,
     potential_savings |-> issue.audit.display_value,
     recommended_solutions |-> SolutionNames(issue.azion_solution.solutions),
     implementation_complexity |->
        IF Len(issue.azion_solution.solutions) = 1 THEN "low" ELSE "medium",
     pagespeed_insights_context |->
        [current_value |-> issue.audit.display_value,
         score |-> issue.audit.score],
     console_error_details |-> issue.console_error_summary]

\* The loop that pushes one actionItem per issue.
ActionItems(i, issues) == [k \in 1..Len(issues) |-> ActionItem(issues[k])]

\* ActionPlan as it would be without the slice(0, 10).
ActionPlan_NoSlice(i, categories) ==
    ActionItems(i, StableSort(i, AllIssues(categories)))

\* The action plan: the sorted issues, cut to the first ten, as action items.
ActionPlan(i, categories) ==
    ActionItems(i, Slice(StableSort(i, AllIssues(categories)), ActionPlanSize))

\* generateMarketingCampaignData: [threw |-> TRUE] when an exception leaves
\* the function (Object.entries(null) included), else the campaign data.
\* Everything after the category loop: the Set becomes an array, the
\* solutions overview and the action plan are built.
FinishCampaignData(i, st) ==
    IF st.threw THEN [threw |-> TRUE]
    ELSE [threw |-> FALSE,
          value |->
            [summary |-> [st.summary EXCEPT
                 !.potential_solutions = st.potentialSolutions],
             categories |-> st.categories,
             solutions_overview |->
                 SolutionsOverview(i, st.potentialSolutions),
             action_plan |-> ActionPlan(i, st.categories)]]

generateMarketingCampaignData(i, pagespeedAnalysis) ==
    IF pagespeedAnalysis.isNull THEN [threw |-> TRUE]
    ELSE FinishCampaignData(i,
            ProcessCategories(i,
                [threw |-> FALSE,
                 summary |-> EmptySummary("high"),
                 potentialSolutions |-> <<>>,
                 categoryIssues |-> <<>>,
                 categories |-> <<>>],
                pagespeedAnalysis.entries))

(***************************************************************************)
(* generateAzionRecommendations (TypeScript service)                       *)
(***************************************************************************)

\* The inner loop of the first pass: one issue of one category, and its
\* `if (azionSolution)` body.
PushRecommendation(st, categoryName, issue, azionSolution) ==
    IF azionSolution.kind = "throw" THEN [st EXCEPT !.threw = TRUE]
    ELSE IF azionSolution.kind = "null" THEN st
    ELSE [st EXCEPT
            !.recommendations = Append(@,
                [category |-> categoryName,
                 issue |-> issue,
                 azion_solution |-> azionSolution]),
            !.allSolutions =
                SetAddAll(@, SolutionIds(azionSolution.solutions))]

CollectIssue(st, categoryName, issue) ==
    IF st.threw THEN st
    ELSE PushRecommendation(st, categoryName, issue,
            getAzionSolutionsForAudit("ts", issue.id, issue))

RECURSIVE CollectIssues(_, _, _)
CollectIssues(st, categoryName, issues) ==
    IF issues = <<>> THEN st
    ELSE CollectIssues(CollectIssue(st, categoryName, Head(issues)),
                       categoryName, Tail(issues))

\* `for (const issue of categoryData.issues)`: reading .issues of null throws,
\* and so does iterating the undefined .issues of a string or of an object
\* without an issues list.
RECURSIVE CollectCategories(_, _)
CollectCategories(st, entries) ==
    IF entries = <<>> \/ st.threw THEN st
    ELSE IF Head(entries).data.kind # "object"
            \/ ~Head(entries).data.hasIssues
    THEN [st EXCEPT !.threw = TRUE]
    ELSE CollectCategories(
            CollectIssues(st, Head(entries).name, Head(entries).data.issues),
            Tail(entries))

\* The return statement of generateAzionRecommendations, reached when
\* neither pass threw.
RecommendationsResult(st, marketingData) ==
    IF st.threw \/ marketingData.threw THEN [threw |-> TRUE]
    ELSE [threw |-> FALSE,
          recommendations |-> st.recommendations,
          marketing_data |-> marketingData.value,
          solution_count |-> Len(st.allSolutions)]

generateAzionRecommendations(a) ==
    IF a.isNull
    THEN [threw |-> FALSE,
          recommendations |-> <<>>,
          marketing_data |-> createEmptyMarketingData,
          solution_count |-> 0]
    ELSE RecommendationsResult(
            CollectCategories(
                [threw |-> FALSE, recommendations |-> <<>>,
                 allSolutions |-> <<>>], a.entries),
            generateMarketingCampaignData("ts", a))

(***************************************************************************)
(* formatMarketingPitch                                                    *)
(***************************************************************************)

\* The url argument; the pitch copies it into executive_summary.website.
PitchUrl == "https://example.com"

\* impactScore as it would be with the first threshold inclusive (>= 3).
ImpactScore_Inclusive(summary) ==
    IF summary.high_priority_issues >= 3 THEN "High"
    ELSE IF summary.total_issues > 5 THEN "Medium"
    ELSE "Low"

\* summary.high_priority_issues > 3 ? 'High' :
\*     summary.total_issues > 5 ? 'Medium' : 'Low'
ImpactScore(summary) ==
    IF summary.high_priority_issues > 3 THEN "High"
    ELSE IF summary.total_issues > 5 THEN "Medium"
    ELSE "Low"

\* The loop over Object.entries(campaignData.solutions_overview): one
\* highlight per solution of the overview, in its order.
SolutionHighlights(i, overview) ==
    [k \in 1..Len(overview) |-> [name |-> Catalog(i)[overview[k]].name]]

formatMarketingPitch(i, data, url) ==
    [executive_summary |->
        [website |-> url,
         issues_found |-> data.summary.total_issues,
         critical_issues |-> data.summary.high_priority_issues,
         potential_impact |-> ImpactScore(data.summary),
         recommended_solutions |-> Len(data.summary.potential_solutions)],
     solution_highlights |-> SolutionHighlights(i, data.solutions_overview)]

(***************************************************************************)
(* CrUXService.assessCrUXPerformance                                       *)
(*                                                                         *)
(* JavaScript numbers are modelled as exact fractions num/den (den > 0) or *)
(* NaN.  Metric values and thresholds are integers: milliseconds, and      *)
(* thousandths for cumulative_layout_shift (0.1 is 100, 0.25 is 250).      *)
(***************************************************************************)

Number(n) == [nan |-> FALSE, num |-> n, den |-> 1]

Fraction(n, d) == [nan |-> FALSE, num |-> n, den |-> d]

NaN == [nan |-> TRUE, num |-> 0, den |-> 1]

\* a <= b; false when either is NaN.
NumLeq(a, b) == ~a.nan /\ ~b.nan /\ a.num * b.den <= b.num * a.den

NumEq(a, b) == ~a.nan /\ ~b.nan /\ a.num * b.den = b.num * a.den

NumAdd(a, b) ==
    IF a.nan \/ b.nan THEN NaN
    ELSE Fraction(a.num * b.den + b.num * a.den, a.den * b.den)

\* Math.max(0, x): NaN when x is NaN.
MathMax0(x) == IF x.nan THEN NaN ELSE IF x.num < 0 THEN Number(0) ELSE x

\* The thresholds table.
thresholds ==
    ("largest_contentful_paint" :> [good |-> 2500, poor |-> 4000]) @@
    ("first_contentful_paint" :> [good |-> 1800, poor |-> 3000]) @@
    ("cumulative_layout_shift" :> [good |-> 100, poor |-> 250]) @@
    ("interaction_to_next_paint" :> [good |-> 200, poor |-> 500]) @@
    ("experimental_time_to_first_byte" :> [good |-> 800, poor |-> 1800])

\* A p75 entry: a number (or numeric string), or null, which the CrUX History
\* API reports for a period without enough data.
P75Number(n) == [isNull |-> FALSE, value |-> n]

P75Null == [isNull |-> TRUE, value |-> 0]

\* parseFloat(String(x)): parseFloat("null") is NaN.
ParseFloat(x) == IF x.isNull THEN NaN ELSE Number(x.value)

\* latestValue: the last p75 entry parsed, times 100 for
\* cumulative_layout_shift.
LatestValue(metricName, p75Values) ==
    IF metricName = "cumulative_layout_shift"
    THEN [ParseFloat(p75Values[Len(p75Values)]) EXCEPT !.num = @ * 100]
    ELSE ParseFloat(p75Values[Len(p75Values)])

\* "Determine performance level": the status of latestValue.
MetricStatus(latestValue, threshold) ==
    IF NumLeq(latestValue, Number(threshold.good)) THEN "good"
    ELSE IF NumLeq(latestValue, Number(threshold.poor))
    THEN "needs_improvement"
    ELSE "poor"

\* MetricScore as it would be without the Math.max(0, ...) of the last
\* branch.
MetricScore_NoClamp(latestValue, threshold) ==
    IF MetricStatus(latestValue, threshold) = "good" THEN Number(100)
    ELSE IF MetricStatus(latestValue, threshold) = "needs_improvement"
    THEN Fraction(75 * (threshold.poor - threshold.good)
                    - 50 * (latestValue.num - threshold.good),
                  threshold.poor - threshold.good)
    ELSE IF latestValue.nan THEN NaN
    ELSE Fraction(25 * threshold.poor
                    - 25 * (latestValue.num - threshold.poor),
                  threshold.poor)

\* The score of latestValue (an integer or NaN): 100; 75 - position * 50 with
\* position = (latestValue - good) / rangeSize; or
\* Math.max(0, 25 - (latestValue - poor) / poor * 25).
MetricScore(latestValue, threshold) ==
    IF MetricStatus(latestValue, threshold) = "good" THEN Number(100)
    ELSE IF MetricStatus(latestValue, threshold) = "needs_improvement"
    THEN Fraction(75 * (threshold.poor - threshold.good)
                    - 50 * (latestValue.num - threshold.good),
                  threshold.poor - threshold.good)
    ELSE IF latestValue.nan THEN NaN
    ELSE MathMax0(Fraction(25 * threshold.poor
                             - 25 * (latestValue.num - threshold.poor),
                           threshold.poor))

\* The metricInfo literal.
MetricInfo(metricName, latestValue, threshold) ==
    [name |-> metricName,
     value |-> latestValue,
     status |-> MetricStatus(latestValue, threshold),
     score |-> MetricScore(latestValue, threshold),
     threshold_good |-> threshold.good,
     threshold_poor |-> threshold.poor]

\* What one assessed metric adds to the assessment and the running totals.
RecordMetric(st, info) ==
    [st EXCEPT
        !.metrics_assessment = Append(@, info),
        !.totalScore = NumAdd(@, info.score),
        !.metricCount = @ + 1,
        !.issues =
            IF info.status = "poor"
            THEN Append(@, [metric |-> info.name, value |-> info.value,
                            threshold |-> info.threshold_good,
                            severity |-> "high"])
            ELSE IF info.status = "needs_improvement"
            THEN Append(@, [metric |-> info.name, value |-> info.value,
                            threshold |-> info.threshold_good,
                            severity |-> "medium"])
            ELSE @,
        !.strengths =
            IF info.status = "good" THEN Append(@, info.name) ELSE @]

\* One iteration of the loop over Object.entries(metrics): a metric without
\* thresholds or without p75 values is skipped.
AssessMetric(st, entry) ==
    IF entry.name \notin DOMAIN thresholds \/ entry.p75 = <<>> THEN st
    ELSE RecordMetric(st,
            MetricInfo(entry.name, LatestValue(entry.name, entry.p75),
                       thresholds[entry.name]))

RECURSIVE AssessMetrics(_, _)
AssessMetrics(st, entries) ==
    IF entries = <<>> THEN st
    ELSE AssessMetrics(AssessMetric(st, Head(entries)), Tail(entries))

\* `if (metricCount > 0) overall_score = totalScore / metricCount` and the
\* return.
FinishAssessment(st) ==
    [isNull |-> FALSE,
     overall_score |->
        IF st.metricCount > 0
        THEN IF st.totalScore.nan THEN NaN
             ELSE Fraction(st.totalScore.num,
                           st.totalScore.den * st.metricCount)
        ELSE Number(0),
     metrics_assessment |-> st.metrics_assessment,
     issues |-> st.issues,
     strengths |-> st.strengths]

\* assessCrUXPerformance: null for no data or no metrics.
assessCrUXPerformance(data) ==
    IF data.isNull \/ data.metrics = <<>>
    THEN [isNull |-> TRUE]
    ELSE FinishAssessment(
            AssessMetrics(
                [metrics_assessment |-> <<>>, issues |-> <<>>,
                 strengths |-> <<>>, totalScore |-> Number(0),
                 metricCount |-> 0],
                data.metrics))

(***************************************************************************)
(* Inputs                                                                  *)
(***************************************************************************)

\* An issue as analyzePageSpeedData builds it.  Scores are in hundredths
\* (0.3 is 30); an absent string field is the empty string, an absent score
\* or console_error_count is 0, which is what `|| 0` and `|| ''` read.
Issue(id, score, impact) ==
    [id |-> id, title |-> id, score |-> score, impact |-> impact,
     category |-> "", display_value |-> "",
     has_console_errors |-> FALSE, console_errors |-> <<>>,
     console_error_count |-> 0]

\* Audits of every kind the lookups distinguish: mapped high in both tables
\* (three of them, two with the same score), mapped medium in both, mapped
\* low in the JavaScript table only, unmapped, an inherited property name, no
\* id.
IssueInputs ==
    {Issue("server-response-time", 30, "high"),
     Issue("render-blocking-resources", 30, "high"),
     Issue("uses-webp-images", 40, "high"),
     Issue("unused-css-rules", 30, "high"),
     Issue("user-timings", 60, "medium"),
     Issue("not-a-real-audit", 30, "high"),
     Issue("toString", 30, "high"),
     Issue("", 30, "high")}

\* The most issues one analysis of Spec carries, over all its categories.
MaxIssues == 3

\* The most issues the single category of SpecPlan carries.
MaxPlanIssues == 11

CategoryNames == {"performance", "seo"}

CategoryScores == {0, 65}

NullCategory ==
    [kind |-> "null", hasScore |-> FALSE, score |-> 0, hasIssues |-> FALSE,
     issues |-> <<>>]

StringCategory == [NullCategory EXCEPT !.kind = "string"]

ObjectCategory(hasScore, score, hasIssues, issues) ==
    [kind |-> "object", hasScore |-> hasScore, score |-> score,
     hasIssues |-> hasIssues, issues |-> issues]

SeqsUpTo(S, n) == UNION {[1..m -> S] : m \in 0..n}

\* Category values: null, a string, an object without an issues list, an
\* object without a score, and the well-formed {score, issues}.
CategoryInputs(n) ==
    {NullCategory, StringCategory}
    \cup {ObjectCategory(TRUE, s, FALSE, <<>>) : s \in CategoryScores}
    \cup {ObjectCategory(FALSE, 0, TRUE, is) : is \in SeqsUpTo(IssueInputs, n)}
    \cup {ObjectCategory(TRUE, s, TRUE, is) :
            s \in CategoryScores, is \in SeqsUpTo(IssueInputs, n)}

NullAnalysis == [isNull |-> TRUE, entries |-> <<>>]

AnalysisOf(entries) == [isNull |-> FALSE, entries |-> entries]

\* a is null, {} or an object of one or two categories (in either key order)
\* with at most n issues in all.
IsAnalysisInput(a, n) ==
    \/ a = NullAnalysis
    \/ a = AnalysisOf(<<>>)
    \/ \E n1 \in CategoryNames, d1 \in CategoryInputs(n) :
          \/ a = AnalysisOf(<<[name |-> n1, data |-> d1]>>)
          \/ \E n2 \in CategoryNames \ {n1},
                d2 \in CategoryInputs(n - Len(d1.issues)) :
                a = AnalysisOf(<<[name |-> n1, data |-> d1],
                                 [name |-> n2, data |-> d2]>>)

\* One well-formed category holding many issues, mapped and unmapped.
PlanIssueInputs ==
    {Issue("server-response-time", 30, "high"),
     Issue("not-a-real-audit", 30, "high")}

IsPlanAnalysisInput(a, n) ==
    \E is \in SeqsUpTo(PlanIssueInputs, n) :
        a = AnalysisOf(<<[name |-> "performance",
                         data |-> ObjectCategory(TRUE, 65, TRUE, is)]>>)

\* The source values of console errors: two kinds, and absent (the empty
\* string, which is also what analyzePageSpeedData writes for a missing one).
ConsoleSources == {"console.error", "console.warn", ""}

\* The most entries one console errors list carries.
MaxConsoleErrors == 3

ConsoleError(src) == [source |-> src]

\* An 'errors-in-console' issue (or another one) carrying a console errors
\* list and a console_error_count (0 when the field is absent).
ConsoleIssue(id, errors, count) ==
    [Issue(id, 30, "high") EXCEPT
        !.has_console_errors = TRUE,
        !.console_errors = errors,
        !.console_error_count = count]

\* The issues of the console-error runs: 'errors-in-console' with every list
\* of at most n errors and its length as the count, as analyzePageSpeedData
\* builds it; the same with no count field; 'errors-in-console' without a
\* list; an issue of another id that carries a list.
ConsoleIssueInputs(n) ==
    {ConsoleIssue("errors-in-console",
                  [k \in 1..Len(srcs) |-> ConsoleError(srcs[k])], Len(srcs)) :
        srcs \in SeqsUpTo(ConsoleSources, n)}
    \cup {ConsoleIssue("errors-in-console",
                       <<ConsoleError("console.warn")>>, 0),
          Issue("errors-in-console", 30, "high"),
          ConsoleIssue("server-response-time",
                       <<ConsoleError("console.warn")>>, 1)}

\* One or two such issues, in one category or in two.
IsConsoleAnalysisInput(a, n) ==
    \E x \in ConsoleIssueInputs(n) :
        \/ a = AnalysisOf(<<[name |-> "performance",
                             data |-> ObjectCategory(TRUE, 65, TRUE, <<x>>)]>>)
        \/ \E y \in ConsoleIssueInputs(n) :
              \/ a = AnalysisOf(
                        <<[name |-> "performance",
                           data |-> ObjectCategory(TRUE, 65, TRUE, <<x, y>>)]>>)
              \/ a = AnalysisOf(
                        <<[name |-> "performance",
                           data |-> ObjectCategory(TRUE, 65, TRUE, <<x>>)],
                          [name |-> "seo",
                           data |-> ObjectCategory(TRUE, 65, TRUE, <<y>>)]>>)

\* The most issues the single category of SpecPitch carries.
MaxPitchIssues == 7

\* Issues mapped high and mapped medium in both tables.
PitchIssueInputs ==
    {Issue("server-response-time", 30, "high"),
     Issue("unused-css-rules", 60, "medium")}

IsPitchAnalysisInput(a, n) ==
    \E is \in SeqsUpTo(PitchIssueInputs, n) :
        a = AnalysisOf(<<[name |-> "performance",
                         data |-> ObjectCategory(TRUE, 65, TRUE, is)]>>)

\* The most entries one p75 series carries.
MaxP75 == 2

\* The metric names of a CrUX record: the five with thresholds and one
\* without.
CruxMetricNames == DOMAIN thresholds \cup {"round_trip_time"}

\* p75 entries of a metric: null, 0, and the values at and next to the two
\* thresholds, between them, and at and past twice the poor threshold; for
\* cumulative_layout_shift also the hundredths of the thresholds.
P75Inputs(metricName) ==
    IF metricName \notin DOMAIN thresholds
    THEN {P75Null, P75Number(0), P75Number(100)}
    ELSE LET good == thresholds[metricName].good
             poor == thresholds[metricName].poor
         IN  {P75Null} \cup
             {P75Number(v) :
                v \in {0, good - 1, good, good + 1, (good + poor) \div 2,
                       poor - 1, poor, poor + 1, 2 * poor, 2 * poor + 1}
                      \cup (IF metricName = "cumulative_layout_shift"
                            THEN {1, 2, 3, 50} ELSE {})}

NullProcessedData == [isNull |-> TRUE, metrics |-> <<>>]

ProcessedDataOf(metrics) == [isNull |-> FALSE, metrics |-> metrics]

\* d is null, has no metrics, has one metric with a series of at most n
\* entries, or two metrics with at most one entry each.
IsProcessedDataInput(d, n) ==
    \/ d = NullProcessedData
    \/ d = ProcessedDataOf(<<>>)
    \/ \E m1 \in CruxMetricNames :
          \/ \E s1 \in SeqsUpTo(P75Inputs(m1), n) :
                d = ProcessedDataOf(<<[name |-> m1, p75 |-> s1]>>)
          \/ \E m2 \in CruxMetricNames \ {m1} :
                \E s1 \in SeqsUpTo(P75Inputs(m1), 1),
                   s2 \in SeqsUpTo(P75Inputs(m2), 1) :
                    d = ProcessedDataOf(<<[name |-> m1, p75 |-> s1],
                                         [name |-> m2, p75 |-> s2]>>)

\* Strings that are keys of neither table.
UnknownAuditIds ==
    {"not-a-real-audit", "invalid-audit-id", "", "toString", "constructor"}

AuditIdInputs ==
    DOMAIN PAGESPEED_TO_AZION_MAPPING_TS
    \cup DOMAIN PAGESPEED_TO_AZION_MAPPING_JS
    \cup UnknownAuditIds

(***************************************************************************)
(* PageSpeedService.analyzePageSpeedData                                   *)
(***************************************************************************)

performanceAudits ==
    {"first-contentful-paint", "largest-contentful-paint", "speed-index",
     "interactive", "total-blocking-time", "cumulative-layout-shift",
     "server-response-time", "render-blocking-resources", "unused-css-rules",
     "unused-javascript", "modern-image-formats", "uses-webp-images",
     "uses-optimized-images", "efficient-animated-content",
     "legacy-javascript", "preload-lcp-image", "uses-rel-preconnect",
     "uses-rel-preload", "font-display", "third-party-summary",
     "bootup-time", "mainthread-work-breakdown", "dom-size",
     "critical-request-chains", "user-timings",
     "uses-passive-event-listeners", "no-document-write", "uses-http2",
     "uses-long-cache-ttl", "total-byte-weight", "offscreen-images",
     "unminified-css", "unminified-javascript", "uses-text-compression",
     "redirects", "uses-responsive-images", "first-input-delay",
     "interaction-to-next-paint"}

accessibilityAudits ==
    {"color-contrast", "image-alt", "label", "link-name", "button-name",
     "form-field-multiple-labels", "frame-title", "duplicate-id-active",
     "duplicate-id-aria", "heading-order", "html-has-lang",
     "html-lang-valid", "input-image-alt", "installable-manifest",
     "is-crawlable", "lang", "logical-tab-order", "managed-focus",
     "meta-refresh", "meta-viewport", "object-alt", "tabindex",
     "td-headers-attr", "th-has-data-cells", "valid-lang", "video-caption",
     "video-description", "focus-traps", "focusable-controls",
     "interactive-element-affordance", "use-landmarks", "aria-allowed-attr",
     "aria-command-name", "aria-hidden-body", "aria-hidden-focus",
     "aria-input-field-name", "aria-meter-name", "aria-progressbar-name",
     "aria-required-attr", "aria-required-children", "aria-required-parent",
     "aria-roles", "aria-toggle-field-name", "aria-tooltip-name",
     "aria-treeitem-name", "aria-valid-attr-value", "aria-valid-attr",
     "bypass", "definition-list", "dlitem", "document-title", "list",
     "listitem", "skip-link"}

bestPracticesAudits ==
    {"is-on-https", "no-vulnerable-libraries",
     "external-anchors-use-rel-noopener", "geolocation-on-start",
     "notification-on-start", "password-inputs-can-be-pasted-into",
     "uses-http2", "uses-passive-event-listeners", "no-document-write",
     "has-doctype", "charset", "dom-size", "js-libraries", "deprecations",
     "third-party-cookies", "inspector-issues", "csp-xss",
     "unused-javascript", "modern-image-formats", "appcache-manifest",
     "doctype", "image-aspect-ratio", "image-size-responsive",
     "preload-fonts", "font-display", "errors-in-console"}

seoAudits ==
    {"viewport", "document-title", "meta-description", "crawlable-anchors",
     "is-crawlable", "robots-txt", "hreflang", "canonical",
     "structured-data", "html-has-lang", "html-lang-valid",
     "http-status-code", "link-text", "plugins", "tap-targets", "font-size",
     "legible-font-sizes", "image-alt", "video-caption"}

\* The keys of the analysis literal, in the order it is written.
AnalysisKeys == <<"performance", "accessibility", "best_practices", "seo">>

\* PassesScoreFilter as it would be with the bound exclusive (score > 0.9).
PassesScoreFilter_Exclusive(audit) == ~(audit.scoreIsNull \/ audit.score > 90)

\* The negation of `score === null || score >= 0.9` (scores in hundredths).
PassesScoreFilter(audit) == ~(audit.scoreIsNull \/ audit.score >= 90)

\* The loop over details.items that builds consoleErrors.
ConsoleErrorsOf(items) ==
    [k \in 1..Len(items) |-> ConsoleError(items[k].source)]

\* score < 0.5 ? 'high' : 'medium'
ImpactOf(score) == IF score < 50 THEN "high" ELSE "medium"

\* The auditInfo literal, with console_errors and console_error_count added
\* for 'errors-in-console'.
AuditInfo(id, audit) ==
    [id |-> id,
     title |-> audit.title,
     score |-> audit.score,
     impact |-> ImpactOf(audit.score),
     category |-> "",
     display_value |-> audit.displayValue,
     has_console_errors |-> id = "errors-in-console",
     console_errors |->
        IF id = "errors-in-console" THEN ConsoleErrorsOf(audit.items)
        ELSE <<>>,
     console_error_count |->
        IF id = "errors-in-console" THEN Len(audit.items) ELSE 0]

\* CategoryOfAudit as it would be if the lists were tried in the reverse
\* order.
CategoryOfAudit_Reverse(id) ==
    IF id \in seoAudits THEN "seo"
    ELSE IF id \in bestPracticesAudits THEN "best_practices"
    ELSE IF id \in accessibilityAudits THEN "accessibility"
    ELSE "performance"

\* "Categorize audit": the first list that includes the id, performance when
\* none does.
CategoryOfAudit(id) ==
    IF id \in performanceAudits THEN "performance"
    ELSE IF id \in accessibilityAudits THEN "accessibility"
    ELSE IF id \in bestPracticesAudits THEN "best_practices"
    ELSE IF id \in seoAudits THEN "seo"
    ELSE "performance"

\* One iteration of the loop over Object.entries(audits); issues maps each
\* analysis key to its issue list.
ProcessLighthouseAudit(issues, entry) ==
    IF ~PassesScoreFilter(entry.audit) THEN issues
    ELSE [issues EXCEPT ![CategoryOfAudit(entry.id)] =
            Append(@, AuditInfo(entry.id, entry.audit))]

RECURSIVE ProcessLighthouseAudits(_, _)
ProcessLighthouseAudits(issues, entries) ==
    IF entries = <<>> THEN issues
    ELSE ProcessLighthouseAudits(ProcessLighthouseAudit(issues, Head(entries)),
                                 Tail(entries))

\* The analysis literal filled in: (categories.x?.score || 0) * 100 and the
\* issue list of each key.
AnalysisResult(categories, issues) ==
    AnalysisOf([k \in 1..Len(AnalysisKeys) |->
        [name |-> AnalysisKeys[k],
         data |-> ObjectCategory(TRUE, categories[AnalysisKeys[k]], TRUE,
                                 issues[AnalysisKeys[k]])]])

\* analyzePageSpeedData: null when the response carries an error.
analyzePageSpeedData(data) ==
    IF data.hasError THEN NullAnalysis
    ELSE AnalysisResult(data.categories,
            ProcessLighthouseAudits(
                [k \in Range(AnalysisKeys) |-> <<>>], data.audits))

\* The most audits one PageSpeed response carries.
MaxAudits == 2

\* An audit of the response: its score (hundredths, or null), title,
\* displayValue and details.items (absent: empty).
Audit(scoreIsNull, score, items) ==
    [scoreIsNull |-> scoreIsNull, score |-> score, title |-> "",
     displayValue |-> "", items |-> items]

\* Scores at and next to the two bounds the code compares with, and null.
AuditScores == {0, 49, 50, 89, 90, 100}

AuditInputs ==
    {Audit(FALSE, sc, <<>>) : sc \in AuditScores}
    \cup {Audit(TRUE, 0, <<>>),
          Audit(FALSE, 0, <<[source |-> "console.warn"], [source |-> ""]>>)}

\* Audit ids of each list, of two lists at once, and of none.
LighthouseAuditIds ==
    {"server-response-time", "image-alt", "errors-in-console",
     "meta-description", "unused-javascript", "not-a-real-audit"}

\* The Lighthouse category scores, 0 where the response has none: no
\* categories at all, or the same score in each.
CategoryScoreInputs ==
    {[k \in Range(AnalysisKeys) |-> sc] : sc \in CategoryScores}

ErrorResponse ==
    [hasError |-> TRUE, audits |-> <<>>,
     categories |-> [k \in Range(AnalysisKeys) |-> 0]]

\* d is an error response, or a response with at most n audits of distinct
\* ids.
IsPageSpeedDataInput(d, n) ==
    \/ d = ErrorResponse
    \/ \E cs \in CategoryScoreInputs,
          ids \in SeqsUpTo(LighthouseAuditIds, n) :
          /\ \A a, b \in 1..Len(ids) : ids[a] = ids[b] => a = b
          /\ \E as \in [1..Len(ids) -> AuditInputs] :
                d = [hasError |-> FALSE,
                     audits |-> [k \in 1..Len(ids) |->
                                    [id |-> ids[k], audit |-> as[k]]],
                     categories |-> cs]

(***************************************************************************)
(* POST /analyze: validation middleware, AnalyzerService.analyzeWebsite    *)
(*                                                                         *)
(* An API key of n characters is the sequence <<1, ..., n>>: each          *)
(* character stands for its position, so the characters of the key that a  *)
(* text holds can be told.  A log line is its message and the key          *)
(* characters interpolated into it.                                        *)
(***************************************************************************)

\* validateApiKey: "at least 30 characters".
MinApiKeyLength == 30

ApiKey(n) == [k \in 1..n |-> k]

\* String.prototype.substring(start, end) on a sequence, both indices
\* clamped to 0..length.
Substring(str, start, end) ==
    LET lo == IF start < 0 THEN 0 ELSE Min(start, Len(str))
        hi == IF end < 0 THEN 0 ELSE Min(end, Len(str))
    IN  SubSeq(str, Min(lo, hi) + 1, IF lo < hi THEN hi ELSE lo)

LogLine(message, keyChars) == [message |-> message, key_chars |-> keyChars]

\* A url of a request body: its protocol prefix ("" when it has none) and
\* what follows; the absent url has neither.
Url(protocol, rest) == [protocol |-> protocol, rest |-> rest]

NoUrl == Url("", "")

\* The request of the runs that send none: POST /analyze with an empty body.
NoRequest ==
    [method |-> "POST", path |-> "/analyze", parsable |-> TRUE,
     api_key |-> <<>>, startsWithAIza |-> FALSE, url |-> NoUrl,
     device |-> "", use_crux |-> FALSE, weeks |-> 0]

NoValidation ==
    [kind |-> "none", valid |-> FALSE, error |-> "", message |-> "",
     data |-> <<>>]

\* A response: its status, the fields of its body and whether it carries
\* Access-Control-Allow-Origin: * (the Express app uses cors(), the edge
\* handler spreads corsHeaders).
Response(status, body) == [status |-> status, body |-> body, cors |-> TRUE]

NoResponse == [status |-> 0, body |-> {}, cors |-> FALSE]

\* The lines validateApiKey writes, and whether it accepts the key.
ValidateApiKeyLogs(req) ==
    IF Len(req.api_key) < MinApiKeyLength
    THEN <<LogLine("API key validation failed: too short", <<>>)>>
    ELSE IF ~req.startsWithAIza
    THEN <<LogLine("API key doesn't start with 'AIza'", <<>>)>>
    ELSE <<>>

\* `new URL(url)` returns: the url has a protocol and a host it can parse.
ParsesAsUrl(url) == url.protocol # "" /\ url.rest = "example.com"

\* validateUrl: throws 'URL is required' for no url, prefixes https:// to a
\* url without protocol, and throws 'Invalid URL format' when new URL
\* throws.
validateUrl(url) ==
    IF url = NoUrl
    THEN [threw |-> TRUE, message |-> "URL is required", url |-> NoUrl]
    ELSE IF ParsesAsUrl(IF url.protocol = "" THEN Url("https://", url.rest)
                        ELSE url)
    THEN [threw |-> FALSE, message |-> "",
          url |-> IF url.protocol = "" THEN Url("https://", url.rest)
                  ELSE url]
    ELSE [threw |-> TRUE, message |-> "Invalid URL format", url |-> NoUrl]

\* The rest of validateAnalysisRequest once the key is accepted: validateUrl
\* is called outside any try, and the data gets its defaults.
ValidatedRequest(req, validatedUrl) ==
    IF validatedUrl.threw
    THEN [kind |-> "throw", valid |-> FALSE, error |-> "",
          message |-> validatedUrl.message, data |-> <<>>]
    ELSE [kind |-> "result", valid |-> TRUE, error |-> "", message |-> "",
          data |-> <<[url |-> validatedUrl.url,
                      device |-> IF req.device = "" THEN "mobile"
                                 ELSE req.device,
                      use_crux |-> req.use_crux,
                      weeks |-> IF req.weeks = 0 THEN 25 ELSE req.weeks,
                      api_key |-> req.api_key]>>]

\* validateAnalysisRequest: a result object, or the exception of validateUrl
\* (kind "throw").  api_key is the final key, from the environment or the
\* body.
validateAnalysisRequest(req) ==
    IF req.api_key = <<>>
    THEN [kind |-> "result", valid |-> FALSE,
          error |-> "API key is required",
          message |-> "Please set PAGESPEED_INSIGHTS_API_KEY",
          data |-> <<>>]
    ELSE IF Len(req.api_key) < MinApiKeyLength
    THEN [kind |-> "result", valid |-> FALSE, error |-> "Invalid API key",
          message |-> "API key must be valid and at least 10 characters long",
          data |-> <<>>]
    ELSE ValidatedRequest(req, validateUrl(req.url))

\* The first lines of analyzeWebsite, up to the call of the PageSpeed API:
\* the second holds api_key.substring(0, 10) and
\* api_key.substring(api_key.length - 4).
AnalyzeWebsiteFirstLogs(req) ==
    <<LogLine("Analyzing url (device)...", <<>>),
      LogLine("Using API key: ",
              Substring(req.api_key, 0, 10)
                \o Substring(req.api_key, Len(req.api_key) - 4,
                             Len(req.api_key))),
      LogLine("Fetching PageSpeed Insights data...", <<>>),
      LogLine("PageSpeed API call: endpoint?url=...&key=***", <<>>)>>

\* The lines analyzeWebsite and its caller write when it returns (ok) or
\* throws.
AnalyzeWebsiteLastLogs(ok) ==
    IF ok THEN <<LogLine("Analysis complete!", <<>>)>>
    ELSE <<LogLine("Error during analysis:", <<>>),
           LogLine("Analysis error:", <<>>)>>

\* The fields of the analysis response after `delete response.api_key`.
AnalysisResponseBody ==
    {"url", "device", "timestamp", "analysis", "azion_recommendations",
     "crux_data", "html_report", "marketing_pitch"} \ {"api_key"}

ErrorBody == {"error", "message"}

\* The paths of the switch in handleRequest, and of its GET endpoints.
AnalysisPaths == {"/analyze", "/report", "/full", "/html-json"}

GetPaths == {"/health", "/manual", "/docs"}

\* handleRequest up to the switch: the status it answers with, 0 when it
\* calls an endpoint handler.  v is what validateAnalysisRequest gives for
\* the body; an exception of it reaches the outer catch.
RouteRequest(req, v) ==
    IF req.method = "OPTIONS" THEN 200
    ELSE IF req.method = "GET" /\ req.path \in GetPaths THEN 200
    ELSE IF req.method # "POST" THEN 404
    ELSE IF ~req.parsable THEN 400
    ELSE IF v.kind = "throw" THEN 500
    ELSE IF ~v.valid THEN 400
    ELSE IF req.path \in AnalysisPaths THEN 0
    ELSE 404

\* The most characters an API key of a request has.
MaxKeyLen == 31

\* The route of the Express runs, and the routes of the edge handler runs: a
\* method, a path and whether the body parses as JSON.
ExpressRoutes == {[method |-> "POST", path |-> "/analyze", parsable |-> TRUE]}

EdgeRoutes ==
    [method : {"OPTIONS", "GET", "POST", "PUT"},
     path : AnalysisPaths \cup {"/health", "/unknown"},
     parsable : BOOLEAN]

\* Urls: none, with and without protocol, and two that new URL rejects.
UrlInputs ==
    {NoUrl, Url("https://", "example.com"), Url("", "example.com"),
     Url("https://", ""), Url("", "exa mple.com")}

\* r is a request on one of the routes whose body has one of the urls, a
\* device or none, and an API key of at most n characters (none: the key is
\* missing) that starts with 'AIza' or not.
IsRequestInput(r, n, routes) ==
    \E route \in routes, len \in 0..n, aiza \in BOOLEAN, url \in UrlInputs,
       device \in {"", "desktop"} :
        r = [method |-> route.method, path |-> route.path,
             parsable |-> route.parsable, api_key |-> ApiKey(len),
             startsWithAIza |-> aiza, url |-> url, device |-> device,
             use_crux |-> FALSE, weeks |-> 0]

(***************************************************************************)
(* State machine                                                           *)
(***************************************************************************)

NoCall ==
    /\ pc = "start"
    /\ outcome = "none"
    /\ recommendation = <<>>
    /\ campaignData = <<>>
    /\ recommendations = <<>>
    /\ solution_count = 0
    /\ pitch = <<>>
    /\ assessment = <<>>
    /\ validation = NoValidation
    /\ logs = <<>>
    /\ response = NoResponse

Init ==
    /\ impl \in Impls
    /\ processedData = NullProcessedData
    /\ pagespeedData = ErrorResponse
    /\ request = NoRequest
    /\ IsAnalysisInput(analysis, MaxIssues)
    /\ auditId = ""
    /\ NoCall

InitPlan ==
    /\ impl \in Impls
    /\ processedData = NullProcessedData
    /\ pagespeedData = ErrorResponse
    /\ request = NoRequest
    /\ IsPlanAnalysisInput(analysis, MaxPlanIssues)
    /\ auditId = ""
    /\ NoCall

InitConsole ==
    /\ impl \in Impls
    /\ processedData = NullProcessedData
    /\ pagespeedData = ErrorResponse
    /\ request = NoRequest
    /\ IsConsoleAnalysisInput(analysis, MaxConsoleErrors)
    /\ auditId = ""
    /\ NoCall

InitPitch ==
    /\ impl \in Impls
    /\ processedData = NullProcessedData
    /\ pagespeedData = ErrorResponse
    /\ request = NoRequest
    /\ IsPitchAnalysisInput(analysis, MaxPitchIssues)
    /\ auditId = ""
    /\ NoCall

InitCrux ==
    /\ impl = "ts"
    /\ pagespeedData = ErrorResponse
    /\ request = NoRequest
    /\ analysis = NullAnalysis
    /\ auditId = ""
    /\ IsProcessedDataInput(processedData, MaxP75)
    /\ NoCall

InitAnalyze ==
    /\ impl = "ts"
    /\ request = NoRequest
    /\ analysis = NullAnalysis
    /\ auditId = ""
    /\ processedData = NullProcessedData
    /\ IsPageSpeedDataInput(pagespeedData, MaxAudits)
    /\ NoCall

InitServer ==
    /\ impl = "ts"
    /\ analysis = NullAnalysis
    /\ auditId = ""
    /\ processedData = NullProcessedData
    /\ pagespeedData = ErrorResponse
    /\ IsRequestInput(request, MaxKeyLen, ExpressRoutes)
    /\ NoCall

InitEdge ==
    /\ impl = "ts"
    /\ analysis = NullAnalysis
    /\ auditId = ""
    /\ processedData = NullProcessedData
    /\ pagespeedData = ErrorResponse
    /\ IsRequestInput(request, MaxKeyLen, EdgeRoutes)
    /\ NoCall

InitResolver ==
    /\ impl \in Impls
    /\ processedData = NullProcessedData
    /\ pagespeedData = ErrorResponse
    /\ request = NoRequest
    /\ analysis = NullAnalysis
    /\ auditId \in AuditIdInputs
    /\ NoCall

\* A caller invokes getAzionSolutionsForAudit(auditId) of either module.
CallGetAzionSolutionsForAudit ==
    /\ pc = "start"
    /\ \E r \in {getAzionSolutionsForAudit(impl, auditId, <<>>)} :
           /\ outcome' = IF r.kind = "throw" THEN "threw" ELSE "returned"
           /\ recommendation' = r
    /\ pc' = "done"
    /\ UNCHANGED <<impl, analysis, auditId, campaignData, recommendations,
                   solution_count, otherVars>>

\* AnalyzerService calls generateAzionRecommendations(analysis) of the
\* TypeScript service.
CallGenerateAzionRecommendations ==
    /\ pc = "start"
    /\ impl = "ts"
    /\ \E r \in {generateAzionRecommendations(analysis)} :
           IF r.threw
           THEN /\ outcome' = "threw"
                /\ UNCHANGED <<campaignData, recommendations, solution_count>>
           ELSE /\ outcome' = "returned"
                /\ campaignData' = r.marketing_data
                /\ recommendations' = r.recommendations
                /\ solution_count' = r.solution_count
    /\ pc' = "done"
    /\ UNCHANGED <<impl, analysis, auditId, recommendation, otherVars>>

\* A caller invokes generateMarketingCampaignData(analysis) of the JavaScript
\* module.
CallGenerateMarketingCampaignData ==
    /\ pc = "start"
    /\ impl = "js"
    /\ \E r \in {generateMarketingCampaignData("js", analysis)} :
           IF r.threw
           THEN /\ outcome' = "threw"
                /\ UNCHANGED campaignData
           ELSE /\ outcome' = "returned"
                /\ campaignData' = r.value
    /\ pc' = "done"
    /\ UNCHANGED <<impl, analysis, auditId, recommendation, recommendations,
                   solution_count, otherVars>>

\* formatMarketingPitch(campaignData, url) on the campaign data the
\* aggregation returned: analyzeWebsite calls it right after
\* generateAzionRecommendations; the JavaScript module exports it.
CallFormatMarketingPitch ==
    /\ pc = "done"
    /\ outcome = "returned"
    /\ pitch' = formatMarketingPitch(impl, campaignData, PitchUrl)
    /\ pc' = "pitched"
    /\ UNCHANGED <<impl, analysis, auditId, outcome, recommendation,
                   campaignData, recommendations, solution_count, cruxVars,
                   pagespeedData, serverVars>>

Next ==
    \/ CallGenerateAzionRecommendations
    \/ CallGenerateMarketingCampaignData

NextPitch == Next \/ CallFormatMarketingPitch

\* A caller invokes cruxService.assessCrUXPerformance(processedData).
CallAssessCrUXPerformance ==
    /\ pc = "start"
    /\ assessment' = assessCrUXPerformance(processedData)
    /\ outcome' = "returned"
    /\ pc' = "done"
    /\ UNCHANGED <<impl, analysis, auditId, recommendation, campaignData,
                   recommendations, solution_count, pitch, processedData,
                   pagespeedData, serverVars>>

NextCrux == CallAssessCrUXPerformance

\* analyzeWebsite calls pageSpeedService.analyzePageSpeedData(pagespeedData);
\* the result is the analysis.
CallAnalyzePageSpeedData ==
    /\ pc = "start"
    /\ analysis' = analyzePageSpeedData(pagespeedData)
    /\ outcome' = "returned"
    /\ pc' = "analyzed"
    /\ UNCHANGED <<impl, auditId, recommendation, campaignData,
                   recommendations, solution_count, otherVars>>

NextAnalyze == CallAnalyzePageSpeedData

\* The variables the request handlers leave alone.
serviceVars ==
    <<impl, analysis, auditId, outcome, recommendation, campaignData,
      recommendations, solution_count, pitch, cruxVars, pagespeedData>>

\* validateAnalysisRequestMiddleware: a refused request is answered with
\* 400, a throwing validateUrl ends in Express's error handler (500), and a
\* valid request goes on to the handler.
ValidateAnalysisRequestMiddleware ==
    /\ pc = "start"
    /\ \E v \in {validateAnalysisRequest(request)} :
          /\ validation' = v
          /\ logs' = logs \o (IF request.api_key = <<>> THEN <<>>
                              ELSE ValidateApiKeyLogs(request))
          /\ IF v.kind = "result" /\ v.valid
             THEN pc' = "validated" /\ UNCHANGED response
             ELSE /\ pc' = "responded"
                  /\ response' = Response(IF v.kind = "throw" THEN 500
                                          ELSE 400, ErrorBody)
    /\ UNCHANGED <<request, serviceVars>>

\* The POST /analyze handler calls analyzeWebsite, which runs up to the
\* await of the PageSpeed API call.
BeginAnalyzeWebsite ==
    /\ pc = "validated"
    /\ logs' = logs \o AnalyzeWebsiteFirstLogs(request)
    /\ pc' = "fetching"
    /\ UNCHANGED <<request, validation, response, serviceVars>>

\* The PageSpeed API call returns, with an error or with data; analyzeWebsite
\* throws or finishes, and the handler answers 500 or 200.
CompleteAnalyzeWebsite ==
    /\ pc = "fetching"
    /\ \E ok \in BOOLEAN :
          /\ logs' = logs \o AnalyzeWebsiteLastLogs(ok)
          /\ response' = IF ok THEN Response(200, AnalysisResponseBody)
                         ELSE Response(500, ErrorBody)
    /\ pc' = "responded"
    /\ UNCHANGED <<request, validation, serviceVars>>

NextServer ==
    \/ ValidateAnalysisRequestMiddleware
    \/ BeginAnalyzeWebsite
    \/ CompleteAnalyzeWebsite

\* handleRequest of the edge function up to the switch: it answers, or it
\* calls the endpoint handler of the path.  The body is parsed and validated
\* for every POST, whatever the path.
HandleRequest ==
    /\ pc = "start"
    /\ \E v \in {validateAnalysisRequest(request)} :
          /\ IF request.method = "POST" /\ request.parsable
             THEN /\ validation' = v
                  /\ logs' = logs
                        \o (IF request.api_key = <<>> THEN <<>>
                            ELSE ValidateApiKeyLogs(request))
                        \o (IF v.kind = "throw"
                            THEN <<LogLine("Request handling error:", <<>>)>>
                            ELSE <<>>)
             ELSE UNCHANGED <<validation, logs>>
          /\ IF RouteRequest(request, v) = 0
             THEN pc' = "routed" /\ UNCHANGED response
             ELSE /\ pc' = "responded"
                  /\ response' =
                        Response(RouteRequest(request, v),
                                 IF RouteRequest(request, v) = 200 THEN {}
                                 ELSE ErrorBody)
    /\ UNCHANGED <<request, serviceVars>>

\* handleAnalyzeEndpoint, handleReportEndpoint, handleFullEndpoint and
\* handleHtmlJsonEndpoint: one call of analyzeWebsite inside a try, answered
\* with 200, or with 500 when it throws.
HandleEndpoint ==
    /\ pc = "routed"
    /\ \E ok \in BOOLEAN :
          /\ logs' = logs \o AnalyzeWebsiteFirstLogs(request)
                          \o AnalyzeWebsiteLastLogs(ok)
          /\ response' = IF ok THEN Response(200, AnalysisResponseBody)
                         ELSE Response(500, ErrorBody)
    /\ pc' = "responded"
    /\ UNCHANGED <<request, validation, serviceVars>>

NextEdge == HandleRequest \/ HandleEndpoint

NextResolver == CallGetAzionSolutionsForAudit

Spec == Init /\ [][Next]_vars

SpecPlan == InitPlan /\ [][Next]_vars

SpecConsole == InitConsole /\ [][Next]_vars

SpecPitch == InitPitch /\ [][NextPitch]_vars

SpecCrux == InitCrux /\ [][NextCrux]_vars

SpecAnalyze == InitAnalyze /\ [][NextAnalyze]_vars

SpecServer == InitServer /\ [][NextServer]_vars

SpecEdge == InitEdge /\ [][NextEdge]_vars

SpecResolver == InitResolver /\ [][NextResolver]_vars

(***************************************************************************)
(* Properties                                                              *)
(***************************************************************************)

Returned == pc = "done" /\ outcome = "returned"

\* analysis is a well-typed Analysis: every category is an object with a
\* score and an issues list.
WellTypedAnalysis ==
    /\ ~analysis.isNull
    /\ \A k \in 1..Len(analysis.entries) :
          LET d == analysis.entries[k].data
          IN  d.kind = "object" /\ d.hasScore /\ d.hasIssues

\* No issue of the input has an id that is an inherited property name.
NoInheritedIds ==
    \A k \in 1..Len(analysis.entries) :
        \A j \in 1..Len(analysis.entries[k].data.issues) :
            analysis.entries[k].data.issues[j].id \notin ObjectPrototypeKeys

RECURSIVE SumSeq(_)
SumSeq(s) == IF s = <<>> THEN 0 ELSE Head(s) + SumSeq(Tail(s))

\* The number of issues of one category whose id is a key of the map.
MappedIn(issues) ==
    Cardinality({j \in 1..Len(issues) : issues[j].id \in DOMAIN Mapping(impl)})

\* The number of issues, over all categories of the input, whose id is a key
\* of the audit-to-solution map.
MappedIssueCount ==
    SumSeq([k \in 1..Len(analysis.entries) |->
                MappedIn(analysis.entries[k].data.issues)])

\* C1 (as claimed): total_issues is the sum of the three priority counters
\* and equals the number of input issues whose id is a key of the map.
\* Stated for well-typed analyses, where every category has a score and an
\* issues list.
C1_CountConservation ==
    (Returned /\ WellTypedAnalysis) =>
        /\ campaignData.summary.total_issues =
              campaignData.summary.high_priority_issues
              + campaignData.summary.medium_priority_issues
              + campaignData.summary.low_priority_issues
        /\ campaignData.summary.total_issues = MappedIssueCount

\* C2: the action plan has min(10, number of resolved issues) items, the
\* resolved issues being the input issues with a mapped id, which the run
\* also counts in total_issues.
C2_ActionPlanBound ==
    Returned =>
        /\ Len(campaignData.action_plan) = Min(10, MappedIssueCount)
        /\ Len(campaignData.action_plan)
              = Min(10, campaignData.summary.total_issues)

\* C2 witness: eleven resolved issues, ten of them in the plan.
C2_Witness ==
    /\ Returned
    /\ MappedIssueCount = 11
    /\ Len(campaignData.action_plan) = 10

\* C3: along the action plan the mapped priority weight never increases.
C3_RankingByPriority ==
    Returned =>
        \A k \in 1..(Len(campaignData.action_plan) - 1) :
            priorityOrder(campaignData.action_plan[k].priority)
                >= priorityOrder(campaignData.action_plan[k + 1].priority)

\* C3 witness: the input lists a low-priority issue before a high-priority
\* one and the plan lists them the other way round.
C3_Witness ==
    /\ Returned
    /\ Len(campaignData.categories) >= 1
    /\ campaignData.categories[1].issues[1].azion_solution.priority = "low"
    /\ Len(campaignData.action_plan) = 2
    /\ campaignData.action_plan[1].priority = "high"
    /\ campaignData.action_plan[2].priority = "low"

\* C4 (as claimed): among plan items of the same mapped priority the lower
\* raw score comes first.
C4_TiebreakLowerScoreFirst ==
    Returned =>
        \A k \in 1..(Len(campaignData.action_plan) - 1) :
            campaignData.action_plan[k].priority
                = campaignData.action_plan[k + 1].priority
            => campaignData.action_plan[k].pagespeed_insights_context.score
                <= campaignData.action_plan[k + 1].pagespeed_insights_context.score

\* C5 (as claimed): {} and null both return campaign data with no issues, no
\* potential solutions, no action plan and no categories.
C5_EmptyAndNullInput ==
    (pc = "done" /\ (analysis.isNull \/ analysis.entries = <<>>)) =>
        /\ outcome = "returned"
        /\ campaignData.summary.total_issues = 0
        /\ campaignData.summary.potential_solutions = <<>>
        /\ campaignData.action_plan = <<>>
        /\ campaignData.categories = <<>>

\* C6 (as claimed): an analysis map never makes the entry points throw,
\* whatever its category entries are.  Stated for maps whose issue ids are
\* not inherited property names (those are C7's).
C6_NoThrowOnMalformedCategories ==
    (pc = "done" /\ ~analysis.isNull /\ NoInheritedIds) => outcome = "returned"

\* C7 (as claimed): an auditId that is not a key of the map makes the
\* resolver return null.
C7_ResolverNullOnUnknownIds ==
    (pc = "done" /\ auditId \notin DOMAIN Mapping(impl)) =>
        outcome = "returned" /\ recommendation.kind = "null"

\* C8: an auditId that is a key of the map resolves to a recommendation with
\* at least one solution and the mapping's priority and description.
C8_ResolverTotalOnKnownIds ==
    (pc = "done" /\ auditId \in DOMAIN Mapping(impl)) =>
        /\ outcome = "returned"
        /\ recommendation.kind = "value"
        /\ Len(recommendation.solutions) >= 1
        /\ recommendation.priority = Mapping(impl)[auditId].priority
        /\ recommendation.description = Mapping(impl)[auditId].description

\* C8 witness: the resolver returned for a mapped id one of whose solution
\* ids the catalog lacks.
C8_Witness ==
    /\ pc = "done"
    /\ impl = "js"
    /\ auditId = "user-timings"
    /\ recommendation.kind = "value"
    /\ Len(recommendation.solutions) = 1

\* C9 (as claimed): every solution id a mapping lists is a key of the
\* catalog, so the resolved list is as long as the mapping's list.
C9_MapReferencesCatalog ==
    (pc = "done" /\ auditId \in DOMAIN Mapping(impl)) =>
        /\ \A k \in 1..Len(Mapping(impl)[auditId].solutions) :
              Mapping(impl)[auditId].solutions[k] \in DOMAIN Catalog(impl)
        /\ recommendation.kind = "value"
        /\ Len(recommendation.solutions) = Len(Mapping(impl)[auditId].solutions)

\* The ids of the solutions resolved for the counted issues of the run.
ResolvedSolutionIds ==
    UNION {UNION {Range(SolutionIds(
                    campaignData.categories[k].issues[j].azion_solution.solutions)) :
                  j \in 1..Len(campaignData.categories[k].issues)} :
           k \in 1..Len(campaignData.categories)}

\* C10: potential_solutions lists every solution id resolved for a counted
\* issue, nothing else, and nothing twice.
C10_PotentialSolutionsUnion ==
    Returned =>
        LET ps == campaignData.summary.potential_solutions
        IN  /\ \A a, b \in 1..Len(ps) : ps[a] = ps[b] => a = b
            /\ Range(ps) = ResolvedSolutionIds

\* C10 witness: two counted issues that share a solution (cache): four ids
\* from the first, one new id from the second.
C10_Witness ==
    /\ Returned
    /\ campaignData.summary.total_issues = 2
    /\ Len(campaignData.summary.potential_solutions) = 5
    /\ \E k \in 1..Len(campaignData.categories) :
          Len(campaignData.categories[k].issues) = 2
          /\ Len(campaignData.categories[k].issues[1].azion_solution.solutions) = 4
          /\ Len(campaignData.categories[k].issues[2].azion_solution.solutions) = 2

\* C11 (as claimed): every campaign data the aggregation layer returns has the
\* estimated impact 'high', the one for a null or empty analysis included.
C11_EstimatedImpactAlwaysHigh ==
    Returned => campaignData.summary.estimated_impact = "high"

\* C11 (amended): the estimated impact is 'high' in every campaign data
\* generateMarketingCampaignData builds ({} included) and 'low' in the one
\* generateAzionRecommendations returns for a null analysis.
C11_EstimatedImpactByEntryPoint ==
    Returned =>
        campaignData.summary.estimated_impact
            = IF analysis.isNull THEN "low" ELSE "high"

\* C11 witness: the TypeScript service returned for a null analysis, with
\* estimated impact 'low'.
C11_Witness ==
    /\ Returned
    /\ impl = "ts"
    /\ analysis.isNull
    /\ campaignData.summary.estimated_impact = "low"
    /\ campaignData.summary.total_issues = 0

\* The resolved issues of the returned campaign data, in category order and,
\* inside a category, list order.
ResolvedIssues == AllIssues(campaignData.categories)

\* The positions of ResolvedIssues holding an 'errors-in-console' issue that
\* carries a console errors list.
ConsoleCarriers ==
    {k \in 1..Len(ResolvedIssues) :
        /\ ResolvedIssues[k].audit.id = "errors-in-console"
        /\ ResolvedIssues[k].audit.has_console_errors}

Max(S) == CHOOSE x \in S : \A y \in S : y <= x

\* The source values of a console errors list, 'console.error' standing for
\* an absent one.
SourceValues(errors) ==
    {IF errors[k].source = "" THEN "console.error" ELSE errors[k].source :
        k \in 1..Len(errors)}

\* C12: when a resolved 'errors-in-console' issue carries a console errors
\* list, has_console_errors is true and error_types lists, without
\* duplicates, exactly the source values of that issue's errors (of the last
\* such issue when there are several), 'console.error' standing for an
\* absent source.
C12_ConsoleErrorExtraction ==
    (Returned /\ ConsoleCarriers # {}) =>
        LET block == campaignData.summary.console_errors
            last == ResolvedIssues[Max(ConsoleCarriers)].audit
        IN  /\ block.has_console_errors
            /\ \A a, b \in 1..Len(block.error_types) :
                  block.error_types[a] = block.error_types[b] => a = b
            /\ Range(block.error_types) = SourceValues(last.console_errors)

\* C12 witness: the errors [console.error, console.warn, console.error] gave
\* exactly the two types console.error and console.warn.
C12_Witness ==
    /\ Returned
    /\ Len(ResolvedIssues) = 1
    /\ ResolvedIssues[1].audit.console_errors
          = <<ConsoleError("console.error"), ConsoleError("console.warn"),
              ConsoleError("console.error")>>
    /\ campaignData.summary.console_errors.has_console_errors
    /\ campaignData.summary.console_errors.error_types
          = <<"console.error", "console.warn">>

AssessedNumericMetrics ==
    {k \in 1..Len(processedData.metrics) :
        /\ processedData.metrics[k].name \in DOMAIN thresholds
        /\ processedData.metrics[k].p75 # <<>>
        /\ ~processedData.metrics[k].p75[Len(processedData.metrics[k].p75)].isNull}

\* The latest P75 value of metric k as the record holds it.
LatestP75(k) ==
    processedData.metrics[k].p75[Len(processedData.metrics[k].p75)].value

\* The metricInfo the assessment holds for the metric named name.
InfoOf(name) ==
    LET k == CHOOSE j \in 1..Len(assessment.metrics_assessment) :
                 assessment.metrics_assessment[j].name = name
    IN  assessment.metrics_assessment[k]

\* C14 (as claimed): every metric with thresholds is classified by its latest
\* P75 value v: 'good' with score 100 iff v <= good, 'poor' iff v > poor,
\* 'needs_improvement' otherwise, with score 25 at v = poor.
C14_CruxClassificationBoundaries ==
    (pc = "done" /\ ~assessment.isNull) =>
        \A k \in AssessedNumericMetrics :
            LET name == processedData.metrics[k].name
                v == LatestP75(k)
                info == InfoOf(name)
            IN  /\ info.status = "good" <=> v <= thresholds[name].good
                /\ info.status = "poor" <=> v > thresholds[name].poor
                /\ info.status \in {"good", "needs_improvement", "poor"}
                /\ info.status = "good" => NumEq(info.score, Number(100))
                /\ v = thresholds[name].poor => NumEq(info.score, Number(25))

\* Every issue of the analysis, over its categories.
AnalysisIssues ==
    UNION {Range(analysis.entries[k].data.issues) :
           k \in 1..Len(analysis.entries)}

C16_ApiKeyNotLogged ==
    /\ \A k \in 1..Len(logs) : logs[k].key_chars = <<>>
    /\ "api_key" \notin response.body

\* The number of resolved issues whose audit id the map gives priority p.
ResolvedWithPriority(p) ==
    Cardinality({k \in 1..Len(ResolvedIssues) :
        Mapping(impl)[ResolvedIssues[k].audit.id].priority = p})

C18_ResolverOrderPreservation ==
    (pc = "done" /\ auditId \in DOMAIN Mapping(impl)) =>
        LET InCat(x) == x \in DOMAIN Catalog(impl)
            kept == SelectSeq(Mapping(impl)[auditId].solutions, InCat)
        IN  /\ recommendation.kind = "value"
            /\ Len(recommendation.solutions) = Len(kept)
            /\ \A k \in 1..Len(kept) :
                  /\ recommendation.solutions[k].id = kept[k]
                  /\ recommendation.solutions[k].name
                        = Catalog(impl)[kept[k]].name

\* C18 witness: the mapping's first id is not in the catalog, so its second
\* id is the first solution returned.
C18_Witness ==
    /\ pc = "done"
    /\ auditId \in DOMAIN Mapping(impl)
    /\ Len(Mapping(impl)[auditId].solutions) = 2
    /\ Mapping(impl)[auditId].solutions[1] \notin DOMAIN Catalog(impl)
    /\ recommendation.kind = "value"
    /\ SolutionIds(recommendation.solutions)
          = <<Mapping(impl)[auditId].solutions[2]>>

\* The names of the categories the returned campaign data holds.
EmittedNames ==
    {campaignData.categories[k].name : k \in 1..Len(campaignData.categories)}

\* C19 (as claimed): a category is a key of the output categories iff it
\* holds at least one issue with a mapped id, whatever its score (0
\* included); issue_count is the length of the issues list and the
\* issue_count values add up to total_issues.  Stated for well-typed
\* analyses.
C19_CategoryEmission ==
    (Returned /\ WellTypedAnalysis) =>
        /\ \A k \in 1..Len(analysis.entries) :
              analysis.entries[k].name \in EmittedNames
                <=> MappedIn(analysis.entries[k].data.issues) >= 1
        /\ \A k \in 1..Len(campaignData.categories) :
              campaignData.categories[k].issue_count
                = Len(campaignData.categories[k].issues)
        /\ SumSeq([k \in 1..Len(campaignData.categories) |->
                      campaignData.categories[k].issue_count])
              = campaignData.summary.total_issues

\* The position of the category named name in the input analysis.
InputPosition(name) ==
    CHOOSE k \in 1..Len(analysis.entries) : analysis.entries[k].name = name

\* The input issues of the category named name.
InputIssues(name) == analysis.entries[InputPosition(name)].data.issues

\* The action items of the resolved issues, in the order of resolution
\* (category by category, each in list order).
ResolvedItems ==
    [k \in 1..Len(ResolvedIssues) |-> ActionItem(ResolvedIssues[k])]

\* s is an initial segment of t.
IsPrefix(s, t) == Len(s) <= Len(t) /\ s = SubSeq(t, 1, Len(s))

\* C20: the output categories follow the order of the input categories, the
\* issues of an emitted category are the input issues that resolved, in list
\* order, and plan items with the same priority and score keep the order of
\* the resolved issues (category, then list).
C20_OrderPreservation ==
    Returned =>
        /\ \A a, b \in 1..Len(campaignData.categories) :
              a < b => InputPosition(campaignData.categories[a].name)
                         < InputPosition(campaignData.categories[b].name)
        /\ \A k \in 1..Len(campaignData.categories) :
              LET Resolves(issue) == issue.id \in DOMAIN Mapping(impl)
                  out == campaignData.categories[k].issues
              IN  [j \in 1..Len(out) |-> out[j].audit]
                    = SelectSeq(InputIssues(campaignData.categories[k].name),
                                Resolves)
        /\ \A k \in 1..Len(ResolvedItems) :
              LET Ties(item) ==
                      /\ item.priority = ResolvedItems[k].priority
                      /\ item.pagespeed_insights_context.score
                            = ResolvedItems[k].pagespeed_insights_context.score
              IN  IsPrefix(SelectSeq(campaignData.action_plan, Ties),
                           SelectSeq(ResolvedItems, Ties))

\* C20 witness: the input lists 'seo' before 'performance' and each holds one
\* of two issues that tie on priority and score; the output keeps 'seo'
\* first and the plan keeps the issue of 'seo' first.
C20_Witness ==
    /\ Returned
    /\ Len(analysis.entries) = 2
    /\ analysis.entries[1].name = "seo"
    /\ Len(campaignData.categories) = 2
    /\ campaignData.categories[1].name = "seo"
    /\ campaignData.categories[1].issues[1].audit.id
          = "render-blocking-resources"
    /\ campaignData.categories[2].issues[1].audit.id = "server-response-time"
    /\ Len(campaignData.action_plan) = 2
    /\ campaignData.action_plan[1].title = "render-blocking-resources"
    /\ campaignData.action_plan[2].title = "server-response-time"

\* C21: the console error block of the summary holds the count and the error
\* types of the last resolved 'errors-in-console' issue that carries console
\* errors, whatever the earlier ones carried; with no such issue it is
\* has_console_errors = false, total 0, no types.
C21_ConsoleBlockLastWriteWins ==
    Returned =>
        LET block == campaignData.summary.console_errors
        IN  IF ConsoleCarriers = {}
            THEN block = [has_console_errors |-> FALSE,
                          total_console_errors |-> 0,
                          error_types |-> <<>>]
            ELSE LET last == ResolvedIssues[Max(ConsoleCarriers)].audit
                 IN  /\ block.has_console_errors
                     /\ block.total_console_errors = last.console_error_count
                     /\ Range(block.error_types)
                           = SourceValues(last.console_errors)
                     /\ Len(block.error_types)
                           = Cardinality(SourceValues(last.console_errors))

\* C21 witness: 'performance' carries one console.error, 'seo' after it two
\* console.warn; the block holds total 2 and the single type console.warn.
C21_Witness ==
    /\ Returned
    /\ Len(campaignData.categories) = 2
    /\ ConsoleCarriers = {1, 2}
    /\ ResolvedIssues[1].audit.console_errors
          = <<ConsoleError("console.error")>>
    /\ ResolvedIssues[1].audit.console_error_count = 1
    /\ ResolvedIssues[2].audit.console_errors
          = <<ConsoleError("console.warn"), ConsoleError("console.warn")>>
    /\ campaignData.summary.console_errors
          = [has_console_errors |-> TRUE,
             total_console_errors |-> 2,
             error_types |-> <<"console.warn">>]

\* a < b for two numbers that are not NaN.
NumLess(a, b) == ~a.nan /\ ~b.nan /\ a.num * b.den < b.num * a.den

\* C22 (as claimed): a latest P75 value v with good < v <= poor scores
\* 75 - 50 * (v - good) / (poor - good), which lies in [25, 75); a value
\* v > poor scores max(0, 25 - 25 * (v - poor) / poor), which is 0 from
\* v = 2 * poor on.
C22_CruxInterpolation ==
    (pc = "done" /\ ~assessment.isNull) =>
        \A k \in AssessedNumericMetrics :
            LET name == processedData.metrics[k].name
                v == LatestP75(k)
                good == thresholds[name].good
                poor == thresholds[name].poor
                score == InfoOf(name).score
            IN  /\ (good < v /\ v <= poor) =>
                      /\ NumEq(score,
                               Fraction(75 * (poor - good) - 50 * (v - good),
                                        poor - good))
                      /\ NumLeq(Number(25), score)
                      /\ NumLess(score, Number(75))
                /\ (poor < v /\ v < 2 * poor) =>
                      NumEq(score, Fraction(25 * poor - 25 * (v - poor), poor))
                /\ v >= 2 * poor => NumEq(score, Number(0))

\* C23 (as claimed): a latest cumulative_layout_shift P75 of at most 0.1 is
\* 'good' with score 100 and one in (0.1, 0.25] is 'needs_improvement', the
\* thresholds being in the unit of the value.
C23_ClsThresholdsUnit ==
    (pc = "done" /\ ~assessment.isNull) =>
        \A k \in AssessedNumericMetrics :
            processedData.metrics[k].name = "cumulative_layout_shift" =>
                LET v == LatestP75(k)
                    info == InfoOf("cumulative_layout_shift")
                IN  /\ v <= thresholds["cumulative_layout_shift"].good =>
                          /\ info.status = "good"
                          /\ NumEq(info.score, Number(100))
                    /\ (/\ thresholds["cumulative_layout_shift"].good < v
                        /\ v <= thresholds["cumulative_layout_shift"].poor) =>
                          info.status = "needs_improvement"

\* C24 (as claimed): when generateAzionRecommendations returns for a non-null
\* analysis, the recommendations list has summary.total_issues entries and
\* solution_count is the number of potential solutions of the summary.
C24_TwoPassConsistency ==
    (Returned /\ impl = "ts" /\ ~analysis.isNull) =>
        /\ Len(recommendations) = campaignData.summary.total_issues
        /\ solution_count = Len(campaignData.summary.potential_solutions)

\* C25 (as claimed): every item of the action plan carries the name of a
\* category in whose issue list its originating issue appeared.
C25_ActionItemCategory ==
    Returned =>
        \A x \in 1..Len(campaignData.action_plan) :
            \E k \in 1..Len(campaignData.categories) :
                \E j \in 1..Len(campaignData.categories[k].issues) :
                    campaignData.action_plan[x]
                        = [ActionItem(campaignData.categories[k].issues[j])
                              EXCEPT !.category =
                                         campaignData.categories[k].name]

\* C26 (as claimed): when the summary has has_console_errors = true,
\* total_console_errors is the number of entries of the console errors list
\* of the issue that set the block.
C26_ConsoleErrorTotal ==
    (Returned /\ campaignData.summary.console_errors.has_console_errors) =>
        /\ ConsoleCarriers # {}
        /\ campaignData.summary.console_errors.total_console_errors
              = Len(ResolvedIssues[Max(ConsoleCarriers)].audit.console_errors)

\* The issue list analyzePageSpeedData returned under the key name.
IssuesUnder(name) == InputIssues(name)

\* The positions of the audits of the response that pass the score filter.
PassingAudits ==
    {k \in 1..Len(pagespeedData.audits) :
        /\ ~pagespeedData.audits[k].audit.scoreIsNull
        /\ pagespeedData.audits[k].audit.score < 90}

\* C27: every audit that passes the score filter is an issue of exactly one
\* of the four categories, the first of performance, accessibility,
\* best_practices, seo whose list names its id and performance when none
\* does; the four lists hold as many issues as audits passed, and no id is
\* in two of them.
C27_AuditPartition ==
    (pc = "analyzed" /\ ~analysis.isNull) =>
        /\ [k \in 1..Len(analysis.entries) |-> analysis.entries[k].name]
              = <<"performance", "accessibility", "best_practices", "seo">>
        /\ \A k \in PassingAudits :
              LET id == pagespeedData.audits[k].id
                  Holds(name) ==
                      \E j \in 1..Len(IssuesUnder(name)) :
                          IssuesUnder(name)[j].id = id
              IN  /\ Cardinality({name \in Range(AnalysisKeys) : Holds(name)})
                        = 1
                  /\ Holds("accessibility") <=>
                        /\ id \notin performanceAudits
                        /\ id \in accessibilityAudits
                  /\ Holds("best_practices") <=>
                        /\ id \notin performanceAudits \cup accessibilityAudits
                        /\ id \in bestPracticesAudits
                  /\ Holds("seo") <=>
                        /\ id \notin performanceAudits \cup accessibilityAudits
                                        \cup bestPracticesAudits
                        /\ id \in seoAudits
        /\ SumSeq([k \in 1..Len(analysis.entries) |->
                      Len(analysis.entries[k].data.issues)])
              = Cardinality(PassingAudits)

\* C27 witness: 'image-alt', which the accessibility list and the seo list
\* both name, went to accessibility only, and an id no list names went to
\* performance.
C27_Witness ==
    /\ pc = "analyzed"
    /\ ~analysis.isNull
    /\ "image-alt" \in accessibilityAudits \cap seoAudits
    /\ Cardinality(PassingAudits) = 2
    /\ Len(IssuesUnder("accessibility")) = 1
    /\ IssuesUnder("accessibility")[1].id = "image-alt"
    /\ Len(IssuesUnder("performance")) = 1
    /\ IssuesUnder("performance")[1].id = "not-a-real-audit"
    /\ IssuesUnder("seo") = <<>>

\* The request has one of the four defects validation is to report: no API
\* key, an API key that is too short, no url, a url that is no URL.
DefectiveRequest ==
    \/ request.api_key = <<>>
    \/ Len(request.api_key) < MinApiKeyLength
    \/ request.url = NoUrl
    \/ request.url.rest # "example.com"

\* C28 (as claimed): validateAnalysisRequest returns a result object for
\* every body and never throws: valid = false with an error and a message
\* for a missing or too short API key and for a missing or malformed url,
\* and otherwise valid = true with device 'mobile', use_crux false and
\* weeks 25 filled in for the fields the body leaves out.
C28_ValidationReturnsErrors ==
    validation.kind # "none" =>
        /\ validation.kind = "result"
        /\ DefectiveRequest =>
              /\ ~validation.valid
              /\ validation.error # ""
              /\ validation.message # ""
        /\ ~DefectiveRequest =>
              /\ validation.valid
              /\ Len(validation.data) = 1
              /\ validation.data[1].device
                    = (IF request.device = "" THEN "mobile"
                       ELSE request.device)
              /\ validation.data[1].use_crux = FALSE
              /\ validation.data[1].weeks = 25

\* The number of times analyzeWebsite was called: each call starts with the
\* same first line.
AnalyzeWebsiteCalls ==
    Cardinality({k \in 1..Len(logs) :
                    logs[k].message = "Analyzing url (device)..."})

\* analyzeWebsite threw: its catch wrote "Error during analysis:".
AnalyzerFailed ==
    \E k \in 1..Len(logs) : logs[k].message = "Error during analysis:"

\* C29 (as claimed): handleRequest calls analyzeWebsite at most once, and
\* only for a POST to /analyze, /report, /full or /html-json whose body
\* parsed and passed validation; OPTIONS gets 200, an unparsable body 400, a
\* body that fails validation 400, a method and path no route matches 404, a
\* failure inside the analyzer 500, and every response carries
\* Access-Control-Allow-Origin: *.
C29_EdgeHandlerOrdering ==
    /\ AnalyzeWebsiteCalls <= 1
    /\ AnalyzeWebsiteCalls = 1 =>
          /\ request.method = "POST"
          /\ request.path \in {"/analyze", "/report", "/full", "/html-json"}
          /\ request.parsable
          /\ ~DefectiveRequest
    /\ pc = "responded" =>
          /\ response.cors
          /\ request.method = "OPTIONS" => response.status = 200
          /\ (request.method = "POST" /\ ~request.parsable) =>
                response.status = 400
          /\ (request.method = "POST" /\ request.parsable
                 /\ DefectiveRequest) => response.status = 400
          /\ (\/ request.method = "PUT"
              \/ request.method = "GET" /\ request.path # "/health"
              \/ /\ request.method = "POST" /\ request.parsable
                 /\ ~DefectiveRequest /\ request.path = "/unknown") =>
                response.status = 404
          /\ AnalyzerFailed => response.status = 500

\* The metrics of processedData that assessCrUXPerformance does not skip.
AssessedMetrics ==
    {k \in 1..Len(processedData.metrics) :
        /\ processedData.metrics[k].name \in DOMAIN thresholds
        /\ processedData.metrics[k].p75 # <<>>}

\* The sum of the scores of a list of metricInfo records.
RECURSIVE SumScores(_)
SumScores(infos) ==
    IF infos = <<>> THEN Number(0)
    ELSE NumAdd(Head(infos).score, SumScores(Tail(infos)))

RECURSIVE Gcd(_, _)
Gcd(a, b) == IF b = 0 THEN a ELSE Gcd(b, a % b)

\* A number that is not negative, in lowest terms.
LowestTerms(x) ==
    Fraction(x.num \div Gcd(x.num, x.den), x.den \div Gcd(x.num, x.den))

\* The numbers a latest P75 entry of the metric named name is drawn from.
P75Values(name) == {x.value : x \in P75Inputs(name) \ {P75Null}}

\* C30: when every assessed metric has a number v >= 0 as its latest P75
\* value, each per-metric score lies in [0, 100] and no larger value of the
\* same metric scores higher; the overall score is the arithmetic mean of
\* the per-metric scores, lies in [0, 100], and is 0 when no metric was
\* assessed.
C30_ScoreRangeAndMonotonicity ==
    (pc = "done" /\ ~assessment.isNull
       /\ AssessedMetrics = AssessedNumericMetrics) =>
        /\ \A k \in AssessedNumericMetrics :
              LET name == processedData.metrics[k].name
                  score == InfoOf(name).score
              IN  /\ LatestP75(k) >= 0
                  /\ NumLeq(Number(0), score)
                  /\ NumLeq(score, Number(100))
                  /\ \A w \in P75Values(name) :
                        w >= LatestP75(k) =>
                            NumLeq(MetricScore(
                                       LatestValue(name, <<P75Number(w)>>),
                                       thresholds[name]),
                                   score)
        /\ Len(assessment.metrics_assessment)
              = Cardinality(AssessedNumericMetrics)
        /\ IF AssessedNumericMetrics = {}
           THEN NumEq(assessment.overall_score, Number(0))
           ELSE /\ ~assessment.overall_score.nan
                /\ LowestTerms(
                      Fraction(assessment.overall_score.num
                                 * Len(assessment.metrics_assessment),
                               assessment.overall_score.den))
                     = LowestTerms(SumScores(assessment.metrics_assessment))
                /\ NumLeq(Number(0), assessment.overall_score)
                /\ NumLeq(LowestTerms(assessment.overall_score),
                          Number(100))

\* C30 witness: largest_contentful_paint at 3250 scored 50,
\* first_contentful_paint at twice its poor threshold scored 0, and the
\* overall score is 25.
C30_Witness ==
    /\ pc = "done"
    /\ ~assessment.isNull
    /\ Len(assessment.metrics_assessment) = 2
    /\ NumEq(InfoOf("largest_contentful_paint").value, Number(3250))
    /\ NumEq(InfoOf("largest_contentful_paint").score, Number(50))
    /\ NumEq(InfoOf("first_contentful_paint").value, Number(6000))
    /\ NumEq(InfoOf("first_contentful_paint").score, Number(0))
    /\ NumEq(assessment.overall_score, Number(25))

====
